---- MODULE Spec2Model ----
(***************************************************************************)
(* Verification model of the values-assessment tool (Koppla): the evidence *)
(* scorer and flag decision engine, the network graph builder, degree      *)
(* centrality, the hop-distance / distance-decay engine, and the name      *)
(* similarity and entity deduplication of the entity extractor.            *)
(*                                                                         *)
(* Numbers that are fractions in the JavaScript source are kept as         *)
(* integers: confidences and decay factors in hundredths (0.3 -> 30),      *)
(* adjusted confidences in ten-thousandths (confidence * decay), severity  *)
(* multipliers and evidence scores in tenths.                              *)
(***************************************************************************)
EXTENDS Integers, Sequences, FiniteSets, TLC

VARIABLES
    pc,                 \* position in the pipeline being run
    evidence,           \* evidence list handed to scoreAllEvidence
    sanctionsResult,    \* result of checkAllSanctions
    scoredResults,      \* result of scoreAllEvidence
    hypotheses,         \* hypotheses argument of the assignFlag call
    confidenceWarnings, \* confidenceWarnings argument of the assignFlag call
    flagResult,         \* result of assignFlag
    entities,           \* entity list handed to buildNetworkGraph
    relationships,      \* relationship list handed to buildNetworkGraph
    networkGraph,       \* graph object, mutated in place by the decay engine
    centrality,         \* result of calculateCentrality
    nameA,              \* first string handed to levenshtein / similarity
    nameB,              \* second string handed to levenshtein / similarity
    compared,           \* the distance and similarity returned for them
    rawEntities,        \* raw mentions handed to deduplicateEntities
    entityCounter,      \* module-level counter of generateEntityId
    textSources,        \* text sources handed to crossReference
    crossRefResult,     \* result of crossReference
    assessment,         \* assessment snapshot handed to generateSuggestions
    suggestions,        \* result of generateSuggestions
    hypothesisCounter,  \* module-level counter of createHypothesis
    suggestionCounter,  \* module-level counter of createSuggestion
    runs,               \* the runAssessment calls of the process
    kopplaState,        \* chrome.storage.local kopplaState of the extension
    runners,            \* the runAssessmentInBackground calls of the worker
    updates,            \* the updateState calls under way
    lastStarted,        \* orgName of the last START_ASSESSMENT message
    cleared,            \* a CLEAR_STATE was handled and no START_ASSESSMENT since
    earlierFlag         \* verdict of assignFlag before one more item was added

vars == <<pc, evidence, sanctionsResult, scoredResults, hypotheses,
          confidenceWarnings, flagResult, entities, relationships,
          networkGraph, centrality, nameA, nameB, compared, rawEntities,
          entityCounter, textSources, crossRefResult, assessment, suggestions,
          hypothesisCounter, suggestionCounter, runs, kopplaState, runners,
          updates, lastStarted, cleared, earlierFlag>>

flagVars == <<evidence, sanctionsResult, scoredResults, hypotheses,
              confidenceWarnings, flagResult>>

graphVars == <<entities, relationships, networkGraph, centrality>>

entityVars == <<nameA, nameB, compared, rawEntities, entityCounter>>

crossVars == <<textSources, crossRefResult>>

suggestVars == <<assessment, suggestions>>

counterVars == <<hypothesisCounter, suggestionCounter>>

runVars == <<runs, earlierFlag>>

extVars == <<kopplaState, runners, updates, lastStarted, cleared>>

\* Value of a variable that has not been produced yet.
Null == [none |-> TRUE]

\* The cross-referencer is not part of the run
CrossIdle ==
    /\ textSources = <<>>
    /\ crossRefResult = Null

\* The suggestions generator is not part of the run
SuggestIdle ==
    /\ assessment = Null
    /\ suggestions = Null

\* No hypothesis and no suggestion has been numbered, no runAssessment called
RunIdle ==
    /\ hypothesisCounter = 0
    /\ suggestionCounter = 0
    /\ runs = <<>>
    /\ earlierFlag = Null

\* The browser extension is not part of the run
ExtIdle ==
    /\ kopplaState = Null
    /\ runners = <<>>
    /\ updates = <<>>
    /\ lastStarted = "null"
    /\ cleared = FALSE

\* The entity extractor is not part of the run
EntityIdle ==
    /\ nameA = <<>>
    /\ nameB = <<>>
    /\ compared = Null
    /\ rawEntities = <<>>
    /\ entityCounter = 0

(***************************************************************************)
(* Generic helpers                                                         *)
(***************************************************************************)
SeqsUpTo(S, n) == UNION {[1..k -> S] : k \in 0..n}

Range(s) == {s[i] : i \in DOMAIN s}

Max(a, b) == IF a >= b THEN a ELSE b

Min(a, b) == IF a <= b THEN a ELSE b

\* Array.prototype.filter(...).length for a predicate given as a set of indexes
CountWhere(s, Test(_)) == Cardinality({i \in DOMAIN s : Test(s[i])})

\* Array.prototype.reduce((sum, x) => sum + x, 0) over a list of numbers
RECURSIVE SumSeq(_)
SumSeq(s) ==
    IF s = <<>> THEN 0 ELSE Head(s) + SumSeq(Tail(s))

MapSeq(s, F(_)) == [i \in DOMAIN s |-> F(s[i])]

(***************************************************************************)
(* Bounds of the flag model                                                *)
(***************************************************************************)
MaxEvidence == 3

MaxHypotheses == 2

\* The three sanctions lists queried by checkAllSanctions (OFAC, UN, EU)
NumSanctionsLists == 3

(***************************************************************************)
(* Evidence scoring (credibility.js)                                       *)
(***************************************************************************)
SourceTypes == {"government", "court", "news", "ngo", "social", "forum", "unknown"}

\* config.credibilityWeights
credibilityWeights ==
    [t \in SourceTypes |->
        CASE t = "government" -> 10
          [] t = "court"      -> 10
          [] t = "news"       -> 7
          [] t = "ngo"        -> 6
          [] t = "social"     -> 4
          [] t = "forum"      -> 2
          [] OTHER            -> 1]

\* config.credibilityWeights[sourceType] || config.credibilityWeights.unknown
getWeight(sourceType) ==
    IF sourceType \in DOMAIN credibilityWeights /\ credibilityWeights[sourceType] # 0
    THEN credibilityWeights[sourceType]
    ELSE credibilityWeights["unknown"]

\* severityMultipliers[evidence.severity] || 0.5, in tenths
severityMultiplier(severity) ==
    CASE severity = "high"   -> 10
      [] severity = "medium" -> 7
      [] severity = "low"    -> 4
      [] OTHER               -> 5

\* Weight from which an item counts as a credible source (>= 6)
CredibleWeight == 6

scoreEvidence(e) ==
    [sourceType |-> e.sourceType,
     category |-> e.category,
     severity |-> e.severity,
     status |-> e.status,
     credibilityWeight |-> getWeight(e.sourceType),
     severityMultiplier |-> severityMultiplier(e.severity),
     score |-> getWeight(e.sourceType) * severityMultiplier(e.severity)]

\* Mutant: the credible tier starts strictly above the NGO weight
IsCredible_StrictlyAbove(item) == item.credibilityWeight > CredibleWeight

\* item.credibilityWeight >= 6
IsCredible(item) == item.credibilityWeight >= CredibleWeight

scoreAllEvidence(evidenceList) ==
    LET scored == [i \in DOMAIN evidenceList |-> scoreEvidence(evidenceList[i])]
        cats == {scored[i].category : i \in DOMAIN scored}
        InCat(c) == SelectSeq(scored, LAMBDA it : it.category = c)
        Score(it) == it.score
    IN [scoredEvidence |-> scored,
        byCategory |-> [c \in cats |->
                          [items |-> InCat(c),
                           totalScore |-> SumSeq(MapSeq(InCat(c), Score)),
                           count |-> Len(InCat(c))]],
        overallScore |-> SumSeq(MapSeq(scored, Score)),
        totalItems |-> Len(scored),
        credibleSourceCount |-> CountWhere(scored, IsCredible)]

(***************************************************************************)
(* Sanctions checks (sanctionsScraper.js)                                  *)
(***************************************************************************)
\* What one list check can come back with: the list was fetched and holds no
\* match, it was fetched and holds a match, or the fetch failed.
ListOutcomes == {"clean", "match", "error"}

\* checkOFAC / checkUN / checkEU: the record one list check returns
checkList(outcome) ==
    [found |-> outcome = "match",
     matches |-> IF outcome = "match" THEN 1 ELSE 0,
     error |-> outcome = "error"]

checkAllSanctions(outcomes) ==
    LET results == [i \in DOMAIN outcomes |-> checkList(outcomes[i])]
    IN [sanctioned |-> \E i \in DOMAIN results : results[i].found,
        results |-> results,
        totalMatches |-> SumSeq(MapSeq(results, LAMBDA r : r.matches)),
        errors |-> SelectSeq(results, LAMBDA r : r.error)]

(***************************************************************************)
(* Flag assignment (flagAssignment.js)                                     *)
(***************************************************************************)
\* A message the engine emits (a reason, a detail line, a "what would
\* change" statement): its fixed text and the values interpolated into it.
Msg(text, args) == [text |-> text, args |-> args]

\* if (cond) list.push(item)
PushIf(cond, item) == IF cond THEN <<item>> ELSE <<>>

yellowThreshold == 2

\* RED trigger "3+ credible sources"
minCredibleSources == 3

\* Mutant: the distance is not clamped at 0
distanceToYellow_NoClamp(indicators) == yellowThreshold - indicators

\* Math.max(0, yellowThreshold - yellowIndicators)
distanceToYellow(indicators) == Max(0, yellowThreshold - indicators)

buildThresholdInfo(currentFlag, indicators, conditions, redConditionsMet, scored) ==
    LET toYellow == distanceToYellow(indicators)
        unmet == SelectSeq(conditions, LAMBDA c : ~c.met)
        unmetRed == MapSeq(unmet, LAMBDA c : c.label)
        credibleGap == minCredibleSources - scored.credibleSourceCount
        whenGreen ==
            (IF toYellow = 1
             THEN <<Msg("1 more indicator type would change this to YELLOW", <<>>)>>
             ELSE IF toYellow > 1
             THEN <<Msg("more indicator types needed to reach YELLOW", <<toYellow>>)>>
             ELSE <<>>)
            \o PushIf(Len(unmetRed) > 0,
                      Msg("Any of these would immediately trigger RED", unmetRed))
        whenYellow ==
            PushIf(Len(unmetRed) > 0, Msg("Any of these would escalate to RED", unmetRed))
            \o PushIf(credibleGap > 0,
                      Msg("more credible source(s) would trigger RED", <<credibleGap>>))
        whenRed == <<Msg("Already at highest flag level - no escalation possible", <<>>)>>
        whenGrey == <<Msg("Re-running with working network connections may resolve", <<>>)>>
    IN [currentFlag |-> currentFlag,
        yellowIndicators |-> indicators,
        yellowThreshold |-> yellowThreshold,
        distanceToYellow |-> toYellow,
        redConditionsMet |-> redConditionsMet,
        distanceToRed |-> IF currentFlag = "RED"
                          THEN [isNumber |-> TRUE, value |-> 0, needs |-> <<>>]
                          ELSE [isNumber |-> FALSE, value |-> 0, needs |-> unmetRed],
        whatWouldChange |->
            (IF currentFlag = "GREEN" THEN whenGreen ELSE <<>>)
            \o (IF currentFlag = "YELLOW" THEN whenYellow ELSE <<>>)
            \o (IF currentFlag = "RED" THEN whenRed ELSE <<>>)
            \o (IF currentFlag = "GREY" THEN whenGrey ELSE <<>>)]

\* The four RED conditions, in the order the cascade tests them
redConditions(sanctions, scored) ==
    LET courtEvidence == SelectSeq(scored.scoredEvidence, LAMBDA e : e.sourceType = "court")
        govEvidence == SelectSeq(scored.scoredEvidence,
                           LAMBDA e : e.sourceType = "government" /\ e.severity = "high")
    IN <<[met |-> sanctions.sanctioned, label |-> "sanctions match"],
         [met |-> Len(courtEvidence) > 0, label |-> "court conviction"],
         [met |-> Len(govEvidence) > 0, label |-> "government ruling"],
         [met |-> scored.credibleSourceCount >= minCredibleSources,
          label |-> "3+ credible sources"]>>

\* Mutant: an evidence type is an indicator only while a single item has it
yellowIndicators_SingleItem(scored, hyps) ==
    LET One(Test(_)) == IF Len(SelectSeq(scored.scoredEvidence, Test)) = 1 THEN 1 ELSE 0
        highConfHypotheses == SelectSeq(hyps, LAMBDA h : h.confidence = "high")
    IN One(LAMBDA e : e.sourceType = "news")
       + One(LAMBDA e : e.sourceType = "ngo")
       + One(LAMBDA e : e.sourceType = "forum")
       + One(LAMBDA e : e.status = "pending")
       + Len(highConfHypotheses)

\* Mutant: high-confidence hypotheses count as a single indicator category
yellowIndicators_HypothesesOnce(scored, hyps) ==
    LET Has(Test(_)) == IF \E i \in DOMAIN scored.scoredEvidence :
                              Test(scored.scoredEvidence[i]) THEN 1 ELSE 0
    IN Has(LAMBDA e : e.sourceType = "news")
       + Has(LAMBDA e : e.sourceType = "ngo")
       + Has(LAMBDA e : e.sourceType = "forum")
       + Has(LAMBDA e : e.status = "pending")
       + (IF \E i \in DOMAIN hyps : hyps[i].confidence = "high" THEN 1 ELSE 0)

\* The count of yellow indicators
yellowIndicators(scored, hyps) ==
    LET newsEvidence == SelectSeq(scored.scoredEvidence, LAMBDA e : e.sourceType = "news")
        ngoEvidence == SelectSeq(scored.scoredEvidence, LAMBDA e : e.sourceType = "ngo")
        forumEvidence == SelectSeq(scored.scoredEvidence, LAMBDA e : e.sourceType = "forum")
        pendingEvidence == SelectSeq(scored.scoredEvidence, LAMBDA e : e.status = "pending")
        highConfHypotheses == SelectSeq(hyps, LAMBDA h : h.confidence = "high")
    IN (IF Len(newsEvidence) > 0 THEN 1 ELSE 0)
       + (IF Len(ngoEvidence) > 0 THEN 1 ELSE 0)
       + (IF Len(forumEvidence) > 0 THEN 1 ELSE 0)
       + (IF Len(pendingEvidence) > 0 THEN 1 ELSE 0)
       + (IF Len(highConfHypotheses) > 0 THEN Len(highConfHypotheses) ELSE 0)

\* Mutant: one failed sanctions check is enough for "insufficient data"
insufficientData_AnyError(sanctions, scored) ==
    /\ Len(sanctions.errors) >= 1
    /\ scored.totalItems = 0

\* The GREY test: sanctionsErrors >= totalSanctionsChecks && totalItems === 0
insufficientData(sanctions, scored) ==
    /\ Len(sanctions.errors) >= Len(sanctions.results)
    /\ scored.totalItems = 0

assignFlag(sanctions, scored, hyps, warnings) ==
    LET conditions == redConditions(sanctions, scored)
        isSanctioned == conditions[1].met
        hasCourtConviction == conditions[2].met
        hasGovRuling == conditions[3].met
        hasThreeCredible == conditions[4].met
        redConditionsMet == CountWhere(conditions, LAMBDA c : c.met)
        courtEvidence == SelectSeq(scored.scoredEvidence, LAMBDA e : e.sourceType = "court")
        govEvidence == SelectSeq(scored.scoredEvidence,
                           LAMBDA e : e.sourceType = "government" /\ e.severity = "high")
        newsEvidence == SelectSeq(scored.scoredEvidence, LAMBDA e : e.sourceType = "news")
        ngoEvidence == SelectSeq(scored.scoredEvidence, LAMBDA e : e.sourceType = "ngo")
        forumEvidence == SelectSeq(scored.scoredEvidence, LAMBDA e : e.sourceType = "forum")
        pendingEvidence == SelectSeq(scored.scoredEvidence, LAMBDA e : e.status = "pending")
        highConfHypotheses == SelectSeq(hyps, LAMBDA h : h.confidence = "high")
        indicators == yellowIndicators(scored, hyps)
        sanctionsErrors == Len(sanctions.errors)
        totalSanctionsChecks == Len(sanctions.results)
        indicatorDetails ==
            PushIf(Len(newsEvidence) > 0, Msg("News article(s) found", <<Len(newsEvidence)>>))
            \o PushIf(Len(ngoEvidence) > 0, Msg("NGO report(s) found", <<Len(ngoEvidence)>>))
            \o PushIf(Len(forumEvidence) > 0, Msg("Forum mention(s) found", <<Len(forumEvidence)>>))
            \o PushIf(Len(pendingEvidence) > 0, Msg("Pending investigation(s)", <<Len(pendingEvidence)>>))
            \o PushIf(Len(highConfHypotheses) > 0,
                      Msg("high-confidence hypothesis(es)", <<Len(highConfHypotheses)>>))
        greenDetails ==
            indicatorDetails
            \o PushIf(indicators = 1, Msg("Only 1 indicator found (below yellow threshold)", <<>>))
            \o PushIf(Len(warnings) > 0, Msg("name(s) flagged as common - verify manually", <<Len(warnings)>>))
        verdict ==
            IF isSanctioned THEN
                [flag |-> "RED", severity |-> "critical",
                 reason |-> Msg("Organization found on international sanctions list", <<>>),
                 details |-> <<Msg("Found on international sanctions list", <<>>)>>]
            ELSE IF hasCourtConviction THEN
                [flag |-> "RED", severity |-> "critical",
                 reason |-> Msg("Court conviction found against organization", <<>>),
                 details |-> <<Msg("Court conviction(s) found", <<Len(courtEvidence)>>)>>]
            ELSE IF hasGovRuling THEN
                [flag |-> "RED", severity |-> "critical",
                 reason |-> Msg("Government ruling found against organization", <<>>),
                 details |-> <<Msg("Government ruling(s) found", <<Len(govEvidence)>>)>>]
            ELSE IF hasThreeCredible THEN
                [flag |-> "RED", severity |-> "critical",
                 reason |-> Msg("credible sources report concerns", <<scored.credibleSourceCount>>),
                 details |-> <<Msg("credible sources report concerns", <<scored.credibleSourceCount>>)>>]
            ELSE IF indicators >= yellowThreshold THEN
                [flag |-> "YELLOW", severity |-> "warning",
                 reason |-> Msg("types of indicators found", <<indicators>>),
                 details |-> indicatorDetails]
            ELSE IF insufficientData(sanctions, scored) THEN
                [flag |-> "GREY", severity |-> "unknown",
                 reason |-> Msg("Insufficient data - could not verify from available sources", <<>>),
                 details |-> <<Msg("out of sanctions checks failed",
                                   <<sanctionsErrors, totalSanctionsChecks>>)>>]
            ELSE
                [flag |-> "GREEN", severity |-> "none",
                 reason |-> Msg("No significant concerns found", <<>>),
                 details |-> IF Len(greenDetails) = 0
                             THEN <<Msg("All available sources checked - no issues detected", <<>>)>>
                             ELSE greenDetails]
    IN [flag |-> verdict.flag,
        reason |-> verdict.reason,
        details |-> verdict.details,
        severity |-> verdict.severity,
        thresholdInfo |-> buildThresholdInfo(verdict.flag, indicators, conditions,
                                             redConditionsMet, scored)]

(***************************************************************************)
(* Inputs of the flag model                                                *)
(***************************************************************************)
Ev(sourceType, severity, status, category) ==
    [sourceType |-> sourceType, severity |-> severity, status |-> status,
     category |-> category]

\* Evidence items the lists are drawn from: every tier of the credibility
\* table, both sides of the severity test on government items, and a pending
\* item whose source type is no indicator of its own.
EvidencePool ==
    {Ev("court", "high", "confirmed", "corruption"),
     Ev("government", "high", "confirmed", "human-rights"),
     Ev("government", "medium", "pending", "corruption"),
     Ev("news", "medium", "confirmed", "human-rights"),
     Ev("ngo", "low", "unverified", "corruption"),
     Ev("forum", "low", "unverified", "human-rights"),
     Ev("social", "medium", "pending", "corruption")}

EvidenceLists == SeqsUpTo(EvidencePool, MaxEvidence)

\* Confidence labels of the hypotheses handed in; assignFlag only tests for
\* "high"
ConfidenceLabels == {"high", "medium"}

HypothesisLists ==
    SeqsUpTo({[confidence |-> c] : c \in ConfidenceLabels}, MaxHypotheses)

ConfidenceWarningLists == {<<>>, <<[name |-> "common name"]>>}

(***************************************************************************)
(* The flag pipeline: steps 1, 7 and 8 of runAssessment                    *)
(***************************************************************************)
InitFlag ==
    /\ pc = "start"
    /\ evidence \in EvidenceLists
    /\ sanctionsResult = Null
    /\ scoredResults = Null
    /\ hypotheses = <<>>
    /\ confidenceWarnings = <<>>
    /\ flagResult = Null
    /\ entities = <<>>
    /\ relationships = <<>>
    /\ networkGraph = Null
    /\ centrality = <<>>
    /\ EntityIdle
    /\ CrossIdle
    /\ SuggestIdle
    /\ RunIdle
    /\ ExtIdle

CheckAllSanctions ==
    /\ pc = "start"
    /\ \E outcomes \in [1..NumSanctionsLists -> ListOutcomes] :
          sanctionsResult' = checkAllSanctions(outcomes)
    /\ pc' = "sanctions"
    /\ UNCHANGED <<evidence, scoredResults, hypotheses, confidenceWarnings,
                   flagResult, graphVars, entityVars,
                   crossVars, suggestVars, counterVars, runVars, extVars>>

ScoreAllEvidence ==
    /\ pc = "sanctions"
    /\ scoredResults' = scoreAllEvidence(evidence)
    /\ pc' = "scored"
    /\ UNCHANGED <<evidence, sanctionsResult, hypotheses, confidenceWarnings,
                   flagResult, graphVars, entityVars,
                   crossVars, suggestVars, counterVars, runVars, extVars>>

AssignFlag ==
    /\ pc = "scored"
    /\ \E hyps \in HypothesisLists, warnings \in ConfidenceWarningLists :
          /\ hypotheses' = hyps
          /\ confidenceWarnings' = warnings
          /\ flagResult' = assignFlag(sanctionsResult, scoredResults, hyps, warnings)
    /\ pc' = "flagged"
    /\ UNCHANGED <<evidence, sanctionsResult, scoredResults, graphVars, entityVars,
                   crossVars, suggestVars, counterVars, runVars, extVars>>

NextFlag == CheckAllSanctions \/ ScoreAllEvidence \/ AssignFlag

SpecFlag == InitFlag /\ [][NextFlag]_vars

(***************************************************************************)
(* Steps 7 and 8 run on a list and again on the list with one more item    *)
(***************************************************************************)
\* Sanctions results of the comparison: all lists clean, one match, every
\* check failed
SanctionsOutcomes ==
    {[i \in 1..NumSanctionsLists |-> "clean"],
     [i \in 1..NumSanctionsLists |-> IF i = 1 THEN "match" ELSE "clean"],
     [i \in 1..NumSanctionsLists |-> "error"]}

InitReassess ==
    /\ pc = "sanctions"
    /\ evidence \in EvidenceLists
    /\ \E outcomes \in SanctionsOutcomes : sanctionsResult = checkAllSanctions(outcomes)
    /\ scoredResults = Null
    /\ hypotheses = <<>>
    /\ confidenceWarnings = <<>>
    /\ flagResult = Null
    /\ entities = <<>>
    /\ relationships = <<>>
    /\ networkGraph = Null
    /\ centrality = <<>>
    /\ EntityIdle
    /\ CrossIdle
    /\ SuggestIdle
    /\ RunIdle
    /\ ExtIdle

\* scoreAllEvidence and assignFlag on the list with one more item, the
\* sanctions result, hypotheses and warnings being the same
Reassess ==
    /\ pc = "flagged"
    /\ \E item \in EvidencePool :
          /\ evidence' = Append(evidence, item)
          /\ scoredResults' = scoreAllEvidence(evidence')
          /\ flagResult' = assignFlag(sanctionsResult, scoredResults', hypotheses,
                                      confidenceWarnings)
    /\ earlierFlag' = flagResult.flag
    /\ pc' = "reassessed"
    /\ UNCHANGED <<sanctionsResult, hypotheses, confidenceWarnings, graphVars,
                   entityVars, crossVars, suggestVars, counterVars, runs, extVars>>

NextReassess == ScoreAllEvidence \/ AssignFlag \/ Reassess

SpecReassess == InitReassess /\ [][NextReassess]_vars

(***************************************************************************)
(* Network graph (networkGraph.js)                                         *)
(***************************************************************************)
\* Id of the synthetic subject node
TargetId == "org-target"

\* Entity ids as generateEntityId makes them, "entity-{n}-{slug}", and the
\* subject id, in the order Array.prototype.sort() puts them (by UTF-16 code
\* units).  No id holds a "|", so the joined key "a|b" of a sorted pair
\* determines the pair; the key is kept as the sorted pair itself.
IdOrder == <<"entity-1-a", "entity-2-b", "entity-3-c", "entity-4-d", "org-target">>

Rank(id) == CHOOSE i \in DOMAIN IdOrder : IdOrder[i] = id

\* Mutant: the key keeps the direction of the relationship
edgeKey_Directed(from, to) == <<from, to>>

\* [rel.from, rel.to].sort().join('|')
edgeKey(from, to) == IF Rank(from) <= Rank(to) THEN <<from, to>> ELSE <<to, from>>

\* The node buildNetworkGraph and addNode make of an entity.  hasHop says
\* whether metadata.hopDistance has been written yet.
entityNode(entity) ==
    [id |-> entity.id,
     label |-> entity.name,
     type |-> entity.type,
     isTarget |-> FALSE,
     roles |-> entity.roles,
     mentionCount |-> IF entity.mentionCount = 0 THEN 1 ELSE entity.mentionCount,
     confidence |-> entity.confidence,
     hasHop |-> FALSE, hopDistance |-> 0, decayFactor |-> 0]

targetNode(targetOrgName) ==
    [id |-> TargetId,
     label |-> targetOrgName,
     type |-> "organization",
     isTarget |-> TRUE,
     roles |-> <<>>,
     mentionCount |-> 0,
     confidence |-> 0,
     hasHop |-> FALSE, hopDistance |-> 0, decayFactor |-> 0]

NodeIds(nodes) == {nodes[i].id : i \in DOMAIN nodes}

\* for (const entity of entities): skip an id already in nodeIds, else push
RECURSIVE addEntityNodes(_, _)
addEntityNodes(nodes, ents) ==
    IF ents = <<>> THEN nodes
    ELSE IF Head(ents).id \in NodeIds(nodes)
         THEN addEntityNodes(nodes, Tail(ents))
         ELSE addEntityNodes(Append(nodes, entityNode(Head(ents))), Tail(ents))

\* rel.confidence || 0.3 for a new edge, rel.confidence || 0 in a merge
DefaultConfidence == 30

\* The edge made of the first relationship of a pair
newEdge(rel, size) ==
    [id |-> size + 1,
     from |-> rel.from,
     to |-> rel.to,
     type |-> IF rel.type = "" THEN "co-mention" ELSE rel.type,
     label |-> rel.label,
     confidence |-> IF rel.confidence = 0 THEN DefaultConfidence ELSE rel.confidence,
     evidence |-> rel.evidence,
     detectedVia |-> IF "detectedVia" \in DOMAIN rel THEN rel.detectedVia ELSE "unknown",
     decayed |-> FALSE, originalConfidence |-> 0, adjustedConfidence |-> 0,
     hopDecayApplied |-> 0, maxHopDistance |-> 0]

\* Mutant: the merge keeps the later candidate's confidence
mergeConfidence_Last(existing, rel) == rel.confidence

\* Math.max(existing.confidence, rel.confidence || 0)
mergeConfidence(existing, rel) == Max(existing.confidence, rel.confidence)

\* A further relationship of a pair merged into its edge
mergeEdge(existing, rel) ==
    LET upgrade == existing.type = "co-mention" /\ rel.type # "co-mention"
    IN [existing EXCEPT
            !.evidence = existing.evidence \o rel.evidence,
            !.confidence = mergeConfidence(existing, rel),
            !.type = IF upgrade THEN rel.type ELSE existing.type,
            !.label = IF upgrade THEN rel.label ELSE existing.label]

\* for (const rel of relationships): the edge map, kept as the list of its
\* values in insertion order
RECURSIVE collectEdges(_, _, _)
collectEdges(edges, rels, nodeIds) ==
    IF rels = <<>> THEN edges
    ELSE
        LET rel == Head(rels)
            key == edgeKey(rel.from, rel.to)
            same == {i \in DOMAIN edges : edgeKey(edges[i].from, edges[i].to) = key}
        IN IF (rel.from \notin nodeIds /\ rel.from # TargetId)
              \/ (rel.to \notin nodeIds /\ rel.to # TargetId)
           THEN collectEdges(edges, Tail(rels), nodeIds)
           ELSE IF same # {}
           THEN LET i == CHOOSE j \in same : TRUE
                IN collectEdges([edges EXCEPT ![i] = mergeEdge(edges[i], rel)],
                                Tail(rels), nodeIds)
           ELSE collectEdges(Append(edges, newEdge(rel, Len(edges))),
                             Tail(rels), nodeIds)

edgeTypeBreakdown(edges) ==
    [t \in {edges[i].type : i \in DOMAIN edges} |->
        Cardinality({i \in DOMAIN edges : edges[i].type = t})]

buildNetworkGraph(targetOrgName, ents, rels) ==
    LET nodes == addEntityNodes(<<targetNode(targetOrgName)>>, ents)
        edges == collectEdges(<<>>, rels, NodeIds(nodes))
    IN [nodes |-> nodes,
        edges |-> edges,
        graphMetadata |-> [totalNodes |-> Len(nodes),
                           totalEdges |-> Len(edges),
                           edgeTypeBreakdown |-> edgeTypeBreakdown(edges),
                           hopDistribution |-> <<>>]]

\* Mutant: an edge from a node to itself counts once
edgeDegree_LoopOnce(edge, id) == IF edge.from = id \/ edge.to = id THEN 1 ELSE 0

\* What one edge adds to the degree of node id: degreeCounts[edge.from].degree++
\* and degreeCounts[edge.to].degree++
edgeDegree(edge, id) ==
    (IF edge.from = id THEN 1 ELSE 0) + (IF edge.to = id THEN 1 ELSE 0)

\* Array.prototype.sort((a, b) => b.degree - a.degree): stable, descending
RECURSIVE insertByDegree(_, _)
insertByDegree(sorted, x) ==
    IF sorted = <<>> THEN <<x>>
    ELSE IF Head(sorted).degree >= x.degree
         THEN <<Head(sorted)>> \o insertByDegree(Tail(sorted), x)
         ELSE <<x>> \o sorted

RECURSIVE sortByDegree(_)
sortByDegree(s) ==
    IF s = <<>> THEN <<>>
    ELSE insertByDegree(sortByDegree(SubSeq(s, 1, Len(s) - 1)), s[Len(s)])

calculateCentrality(graph) ==
    LET degreeCounts ==
            [i \in DOMAIN graph.nodes |->
                [nodeId |-> graph.nodes[i].id,
                 label |-> graph.nodes[i].label,
                 degree |-> SumSeq([e \in DOMAIN graph.edges |->
                                edgeDegree(graph.edges[e], graph.nodes[i].id)])]]
    IN sortByDegree(degreeCounts)

(***************************************************************************)
(* Hop distance and distance decay (hopDistance.js)                        *)
(***************************************************************************)
\* hopDistance of a node the traversal never reached
Unreachable == -1

\* HOP_DECAY_FACTORS, in hundredths
HOP_DECAY_FACTORS == [h \in 0..3 |-> CASE h = 0 -> 100
                                       [] h = 1 -> 100
                                       [] h = 2 -> 50
                                       [] OTHER -> 25]

\* HOP_DECAY_FACTORS.default, in hundredths
DefaultDecay == 10

\* Mutant: a hop distance outside the table keeps full weight
getDecayFactor_FullBeyondTable(hops) ==
    IF hops \in DOMAIN HOP_DECAY_FACTORS THEN HOP_DECAY_FACTORS[hops] ELSE 100

getDecayFactor(hops) ==
    IF hops \in DOMAIN HOP_DECAY_FACTORS THEN HOP_DECAY_FACTORS[hops] ELSE DefaultDecay

\* Mutant: an edge is followed from its "from" end only
RECURSIVE neighbours_Outgoing(_, _)
neighbours_Outgoing(edges, id) ==
    IF edges = <<>> THEN <<>>
    ELSE (IF Head(edges).from = id THEN <<Head(edges).to>> ELSE <<>>)
         \o neighbours_Outgoing(Tail(edges), id)

\* adjacency[id]: the other end of every edge at id, in edge order
RECURSIVE neighbours(_, _)
neighbours(edges, id) ==
    IF edges = <<>> THEN <<>>
    ELSE (IF Head(edges).from = id THEN <<Head(edges).to>> ELSE <<>>)
         \o (IF Head(edges).to = id THEN <<Head(edges).from>> ELSE <<>>)
         \o neighbours(Tail(edges), id)

adjacencyOf(graph) == [id \in NodeIds(graph.nodes) |-> neighbours(graph.edges, id)]

\* for (const neighbor of adjacency[current] || [])
RECURSIVE visitNeighbours(_, _, _, _)
visitNeighbours(nbrs, queue, distances, currentDist) ==
    IF nbrs = <<>> THEN [queue |-> queue, distances |-> distances]
    ELSE IF Head(nbrs) \in DOMAIN distances
         THEN visitNeighbours(Tail(nbrs), queue, distances, currentDist)
         ELSE visitNeighbours(Tail(nbrs), Append(queue, Head(nbrs)),
                              (Head(nbrs) :> (currentDist + 1)) @@ distances,
                              currentDist)

\* while (queue.length > 0)
RECURSIVE breadthFirst(_, _, _)
breadthFirst(queue, distances, adjacency) ==
    IF queue = <<>> THEN distances
    ELSE LET current == Head(queue)
             nbrs == IF current \in DOMAIN adjacency THEN adjacency[current] ELSE <<>>
             after == visitNeighbours(nbrs, Tail(queue), distances, distances[current])
         IN breadthFirst(after.queue, after.distances, adjacency)

\* distances[node.id] !== undefined ? distances[node.id] : -1
nodeHopDistance(distances, id) ==
    IF id \in DOMAIN distances THEN distances[id] ELSE Unreachable

\* hopDistance >= 0 ? getDecayFactor(hopDistance) : 0
nodeDecayFactor(hopDistance) ==
    IF hopDistance >= 0 THEN getDecayFactor(hopDistance) ELSE 0

calculateHopDistances(graph) ==
    LET distances == breadthFirst(<<TargetId>>, (TargetId :> 0), adjacencyOf(graph))
        nodes == [i \in DOMAIN graph.nodes |->
                    LET hop == nodeHopDistance(distances, graph.nodes[i].id)
                    IN [graph.nodes[i] EXCEPT
                            !.hasHop = TRUE,
                            !.hopDistance = hop,
                            !.decayFactor = nodeDecayFactor(hop)]]
        hopCounts == [h \in {nodes[i].hopDistance : i \in DOMAIN nodes} |->
                        Cardinality({i \in DOMAIN nodes : nodes[i].hopDistance = h})]
    IN [graph EXCEPT !.nodes = nodes,
                     !.graphMetadata.hopDistribution = hopCounts]

\* hopLookup[id] ?? -1, with hopLookup[node.id] = node.metadata?.hopDistance ?? -1
hopLookup(graph, id) ==
    LET at == {i \in DOMAIN graph.nodes : graph.nodes[i].id = id}
        \* a later node of the same id overwrites an earlier one
        last == CHOOSE i \in at : \A j \in at : j <= i
    IN IF at = {} THEN Unreachable
       ELSE IF graph.nodes[last].hasHop THEN graph.nodes[last].hopDistance
       ELSE Unreachable

\* Decay of an edge whose farther endpoint is a disconnected node, in hundredths
DisconnectedDecay == 5

\* Mutant: the nearer endpoint decides the decay
edgeMaxHop_Nearer(hopFrom, hopTo) == Min(hopFrom, hopTo)

\* Math.max(hopFrom, hopTo)
edgeMaxHop(hopFrom, hopTo) == Max(hopFrom, hopTo)

decayEdge(graph, edge) ==
    LET maxHop == edgeMaxHop(hopLookup(graph, edge.from), hopLookup(graph, edge.to))
        decay == IF maxHop >= 0 THEN getDecayFactor(maxHop) ELSE DisconnectedDecay
    IN [edge EXCEPT
            !.decayed = TRUE,
            !.originalConfidence = edge.confidence,
            !.adjustedConfidence = edge.confidence * decay,
            !.hopDecayApplied = decay,
            !.maxHopDistance = IF maxHop >= 0 THEN maxHop ELSE Unreachable]

applyDistanceDecay(graph) ==
    [graph EXCEPT !.edges = [i \in DOMAIN graph.edges |-> decayEdge(graph, graph.edges[i])]]

(***************************************************************************)
(* Inputs of the graph models                                              *)
(***************************************************************************)
MaxRelationships == 3

MaxHopRelationships == 4

Entity(id, name, type, roles, confidence, mentionCount) ==
    [id |-> id, name |-> name, type |-> type, roles |-> roles,
     confidence |-> confidence, mentionCount |-> mentionCount]

Entity1 == Entity("entity-1-a", "Ahmed Al-Rashid", "person", <<"CEO">>, 90, 2)

Entity2 == Entity("entity-2-b", "Baltic Trade", "organization", <<>>, 50, 1)

Entity3 == Entity("entity-3-c", "Carla Nyberg", "person", <<>>, 75, 1)

Entity4 == Entity("entity-4-d", "Delta Holding", "organization", <<>>, 50, 3)

\* Entity lists of the merge model: an entity left out (its id is then no
\* node), both entities, and an entity listed twice
EntityLists == {<<Entity1>>, <<Entity1, Entity2>>, <<Entity2, Entity1, Entity2>>}

Rel(from, to, type, label, confidence) ==
    [from |-> from, to |-> to, type |-> type, label |-> label,
     confidence |-> confidence, evidence |-> <<>>]

\* Relationship candidates of the merge model: both directions of the pair
\* of the subject and an entity and of the pair of two entities, generic or
\* specific, weak or strong, and a relationship of an entity with itself
RelationshipPool ==
    {Rel(p[1], p[2], t, IF t = "co-mention" THEN "co-mentioned" ELSE "CEO", c) :
        p \in {<<"entity-1-a", TargetId>>, <<TargetId, "entity-1-a">>,
               <<"entity-1-a", "entity-2-b">>, <<"entity-2-b", "entity-1-a">>},
        t \in {"co-mention", "organizational"},
        c \in {40, 90}}
    \cup {Rel("entity-1-a", "entity-1-a", "co-mention", "co-mentioned", 40)}

\* Relationship candidates of the hop model: one per pair of the subject and
\* four entities, in one direction or the other
HopRelationshipPool ==
    {Rel("entity-1-a", TargetId, "organizational", "CEO", 90),
     Rel(TargetId, "entity-2-b", "co-mention", "co-mentioned", 40),
     Rel("entity-3-c", TargetId, "co-mention", "co-mentioned", 50),
     Rel(TargetId, "entity-4-d", "financial", "payment", 60),
     Rel("entity-1-a", "entity-2-b", "co-mention", "co-mentioned", 40),
     Rel("entity-3-c", "entity-1-a", "financial", "payment", 70),
     Rel("entity-1-a", "entity-4-d", "co-mention", "co-mentioned", 50),
     Rel("entity-2-b", "entity-3-c", "event-based", "investigation", 60),
     Rel("entity-4-d", "entity-2-b", "co-mention", "co-mentioned", 40),
     Rel("entity-3-c", "entity-4-d", "organizational", "board member", 80)}

\* Each relationship carries its own evidence item: the k-th of the list
\* carries item k
withEvidence(rels) == [k \in DOMAIN rels |-> [rels[k] EXCEPT !.evidence = <<k>>]]

(***************************************************************************)
(* The graph pipeline: steps 6 and 6.5 of runAssessment, and the degree    *)
(* centrality query on the graph                                           *)
(***************************************************************************)
InitGraph ==
    /\ pc = "entities"
    /\ entities \in EntityLists
    /\ \E rels \in SeqsUpTo(RelationshipPool, MaxRelationships) :
          relationships = withEvidence(rels)
    /\ networkGraph = Null
    /\ centrality = <<>>
    /\ evidence = <<>>
    /\ sanctionsResult = Null
    /\ scoredResults = Null
    /\ hypotheses = <<>>
    /\ confidenceWarnings = <<>>
    /\ flagResult = Null
    /\ EntityIdle
    /\ CrossIdle
    /\ SuggestIdle
    /\ RunIdle
    /\ ExtIdle

InitHop ==
    /\ pc = "entities"
    /\ entities = <<Entity1, Entity2, Entity3, Entity4>>
    /\ \E rels \in SeqsUpTo(HopRelationshipPool, MaxHopRelationships) :
          relationships = withEvidence(rels)
    /\ networkGraph = Null
    /\ centrality = <<>>
    /\ evidence = <<>>
    /\ sanctionsResult = Null
    /\ scoredResults = Null
    /\ hypotheses = <<>>
    /\ confidenceWarnings = <<>>
    /\ flagResult = Null
    /\ EntityIdle
    /\ CrossIdle
    /\ SuggestIdle
    /\ RunIdle
    /\ ExtIdle

BuildNetworkGraph ==
    /\ pc = "entities"
    /\ networkGraph' = buildNetworkGraph("Acme Corp", entities, relationships)
    /\ pc' = "built"
    /\ UNCHANGED <<entities, relationships, centrality, flagVars, entityVars,
                   crossVars, suggestVars, counterVars, runVars, extVars>>

CalculateHopDistances ==
    /\ pc = "built"
    /\ networkGraph' = calculateHopDistances(networkGraph)
    /\ pc' = "hops"
    /\ UNCHANGED <<entities, relationships, centrality, flagVars, entityVars,
                   crossVars, suggestVars, counterVars, runVars, extVars>>

\* The pipeline applies the decay once; a second application is a further call
\* of the exported function on the same graph
ApplyDistanceDecay ==
    /\ pc \in {"hops", "decayed"}
    /\ networkGraph' = applyDistanceDecay(networkGraph)
    /\ pc' = IF pc = "hops" THEN "decayed" ELSE "redecayed"
    /\ UNCHANGED <<entities, relationships, centrality, flagVars, entityVars,
                   crossVars, suggestVars, counterVars, runVars, extVars>>

CalculateCentrality ==
    /\ pc \in {"built", "hops", "decayed", "redecayed"}
    /\ centrality' = calculateCentrality(networkGraph)
    /\ UNCHANGED <<pc, entities, relationships, networkGraph, flagVars, entityVars,
                   crossVars, suggestVars, counterVars, runVars, extVars>>

\* graph.nodes.push({...}) unless the id is a node already
addNode(graph, entity) ==
    IF entity.id \in NodeIds(graph.nodes) THEN graph
    ELSE [graph EXCEPT !.nodes = Append(@, entityNode(entity)),
                       !.graphMetadata.totalNodes = Len(graph.nodes) + 1]

\* graph.edges.push({...}) with id edge-(length + 1)
addEdge(graph, relationship) ==
    [graph EXCEPT !.edges = Append(@, newEdge(relationship, Len(graph.edges))),
                  !.graphMetadata.totalEdges = Len(graph.edges) + 1]

\* Number of addEdge calls on one graph
MaxAddedEdges == 2

\* addNode(graph, entity) on a built graph
AddNode ==
    /\ pc = "built"
    /\ \E entity \in {Entity1, Entity2, Entity3} :
          networkGraph' = addNode(networkGraph, entity)
    /\ UNCHANGED <<pc, entities, relationships, centrality, flagVars, entityVars,
                   crossVars, suggestVars, counterVars, runVars, extVars>>

\* addEdge(graph, relationship) on a built graph
AddEdge ==
    /\ pc = "built"
    /\ networkGraph.graphMetadata.totalEdges < Len(relationships) + MaxAddedEdges
    /\ \E rel \in RelationshipPool \cup HopRelationshipPool :
          networkGraph' = addEdge(networkGraph, rel)
    /\ UNCHANGED <<pc, entities, relationships, centrality, flagVars, entityVars,
                   crossVars, suggestVars, counterVars, runVars, extVars>>

\* A graph is built of an entity list and at most one relationship, then edited
InitGraphEdit ==
    /\ InitGraph
    /\ Len(relationships) <= 1

NextGraphEdit ==
    \/ BuildNetworkGraph
    \/ AddNode
    \/ AddEdge

SpecGraphEdit == InitGraphEdit /\ [][NextGraphEdit]_vars

NextGraph ==
    \/ BuildNetworkGraph
    \/ CalculateHopDistances
    \/ ApplyDistanceDecay
    \/ CalculateCentrality

SpecGraph == InitGraph /\ [][NextGraph]_vars

SpecHop == InitHop /\ [][NextGraph]_vars

(***************************************************************************)
(* Name similarity (entityExtractor.js).  A string is the sequence of its  *)
(* characters; a similarity is the exact fraction num / den.               *)
(***************************************************************************)
Min3(x, y, z) == Min(Min(x, y), z)

\* b[i - 1] === a[j - 1] ? 0 : 1
substitutionCost(x, y) == IF x = y THEN 0 ELSE 1

\* One row of the matrix: row holds columns 0 .. Len(row) - 1 of row i, prev is
\* row i - 1
RECURSIVE fillRow(_, _, _, _, _)
fillRow(prev, row, i, a, b) ==
    IF Len(row) = Len(a) + 1 THEN row
    ELSE LET j == Len(row)
             cell == Min3(prev[j + 1] + 1,
                          row[j] + 1,
                          prev[j] + substitutionCost(b[i], a[j]))
         IN fillRow(prev, Append(row, cell), i, a, b)

\* The matrix, row after row: matrix holds rows 0 .. Len(matrix) - 1
RECURSIVE fillMatrix(_, _, _)
fillMatrix(matrix, a, b) ==
    IF Len(matrix) = Len(b) + 1 THEN matrix
    ELSE LET i == Len(matrix)
         IN fillMatrix(Append(matrix, fillRow(matrix[i], <<i>>, i, a, b)), a, b)

\* matrix[b.length][a.length]
levenshtein(a, b) ==
    fillMatrix(<<[j \in 1..(Len(a) + 1) |-> j - 1]>>, a, b)[Len(b) + 1][Len(a) + 1]

\* Mutant: the length of the first string stands for the longer length
longerLength_First(a, b) == Len(a)

\* Math.max(a.length, b.length)
longerLength(a, b) == Max(Len(a), Len(b))

\* 1 - levenshtein(a, b) / maxLen, or 1 when both strings are empty
similarity(a, b) ==
    LET maxLen == longerLength(a, b)
    IN IF maxLen = 0 THEN [num |-> 1, den |-> 1]
       ELSE [num |-> maxLen - levenshtein(a, b), den |-> maxLen]

(***************************************************************************)
(* The similarity model: two strings are drawn and compared both ways      *)
(***************************************************************************)
MaxNameLen == 3

Alphabet == {"a", "b", "c"}

Strings == SeqsUpTo(Alphabet, MaxNameLen)

InitSimilarity ==
    /\ pc = "strings"
    /\ nameA \in Strings
    /\ nameB \in Strings
    /\ compared = Null
    /\ rawEntities = <<>>
    /\ entityCounter = 0
    /\ evidence = <<>>
    /\ sanctionsResult = Null
    /\ scoredResults = Null
    /\ hypotheses = <<>>
    /\ confidenceWarnings = <<>>
    /\ flagResult = Null
    /\ entities = <<>>
    /\ relationships = <<>>
    /\ networkGraph = Null
    /\ centrality = <<>>
    /\ CrossIdle
    /\ SuggestIdle
    /\ RunIdle
    /\ ExtIdle

\* levenshtein(a, b) and similarity(a, b)
Similarity ==
    /\ pc = "strings"
    /\ compared' = [distance |-> levenshtein(nameA, nameB),
                    score |-> similarity(nameA, nameB)]
    /\ pc' = "compared"
    /\ UNCHANGED <<nameA, nameB, rawEntities, entityCounter, flagVars, graphVars,
                   crossVars, suggestVars, counterVars, runVars, extVars>>

\* the same two strings handed over in the other order
SimilaritySwapped ==
    /\ pc = "compared"
    /\ nameA' = nameB
    /\ nameB' = nameA
    /\ compared' = [distance |-> levenshtein(nameB, nameA),
                    score |-> similarity(nameB, nameA)]
    /\ pc' = "swapped"
    /\ UNCHANGED <<rawEntities, entityCounter, flagVars, graphVars,
                   crossVars, suggestVars, counterVars, runVars, extVars>>

NextSimilarity == Similarity \/ SimilaritySwapped

SpecSimilarity == InitSimilarity /\ [][NextSimilarity]_vars

(***************************************************************************)
(* Name normalisation (normalizeName of the base scraper)                  *)
(***************************************************************************)
UpperCase ==
    <<"A", "B", "C", "D", "E", "F", "G", "H", "I", "J", "K", "L", "M">>
    \o <<"N", "O", "P", "Q", "R", "S", "T", "U", "V", "W", "X", "Y", "Z">>

LowerCase ==
    <<"a", "b", "c", "d", "e", "f", "g", "h", "i", "j", "k", "l", "m">>
    \o <<"n", "o", "p", "q", "r", "s", "t", "u", "v", "w", "x", "y", "z">>

Digits == {"0", "1", "2", "3", "4", "5", "6", "7", "8", "9"}

\* \s, as far as names hold it
WhiteSpace == {" "}

\* [.,;:'"!?]
Punctuation == {".", ",", ";", ":", "'", "\"", "!", "?"}

\* \w
WordChars == Range(UpperCase) \cup Range(LowerCase) \cup Digits \cup {"_"}

IsWordChar(c) == c \in WordChars

UpperCaseLetters == Range(UpperCase)

lowerChar(c) ==
    IF c \in UpperCaseLetters
    THEN LowerCase[CHOOSE i \in DOMAIN UpperCase : UpperCase[i] = c]
    ELSE c

toLowerCase(str) == [i \in DOMAIN str |-> lowerChar(str[i])]

RECURSIVE trimStart(_)
trimStart(str) ==
    IF str # <<>> /\ Head(str) \in WhiteSpace THEN trimStart(Tail(str)) ELSE str

RECURSIVE trimEnd(_)
trimEnd(str) ==
    IF str # <<>> /\ str[Len(str)] \in WhiteSpace
    THEN trimEnd(SubSeq(str, 1, Len(str) - 1))
    ELSE str

trim(str) == trimEnd(trimStart(str))

\* replace(/\s+/g, ' ')
RECURSIVE collapseSpaces(_)
collapseSpaces(str) ==
    IF str = <<>> THEN <<>>
    ELSE IF Head(str) \in WhiteSpace
         THEN <<" ">> \o collapseSpaces(trimStart(str))
         ELSE <<Head(str)>> \o collapseSpaces(Tail(str))

\* replace(/[.,;:'"!?]/g, '')
RECURSIVE removePunctuation(_)
removePunctuation(str) ==
    IF str = <<>> THEN <<>>
    ELSE IF Head(str) \in Punctuation
         THEN removePunctuation(Tail(str))
         ELSE <<Head(str)>> \o removePunctuation(Tail(str))

\* inc|ltd|llc|ab|corp|gmbh|ag|sa|plc
CompanySuffixes ==
    {<<"i", "n", "c">>, <<"l", "t", "d">>, <<"l", "l", "c">>, <<"a", "b">>,
     <<"c", "o", "r", "p">>, <<"g", "m", "b", "h">>, <<"a", "g">>, <<"s", "a">>, <<"p", "l", "c">>}

startsWith(str, word) ==
    Len(str) >= Len(word) /\ SubSeq(str, 1, Len(word)) = word

\* The suffix word that stands as a whole word at the head of rest, prev being
\* the character before it; <<>> if there is none
suffixAt(prev, rest) ==
    LET found == {w \in CompanySuffixes :
                    /\ ~IsWordChar(prev)
                    /\ startsWith(rest, w)
                    /\ (Len(rest) = Len(w) \/ ~IsWordChar(rest[Len(w) + 1]))}
    IN IF found = {} THEN <<>> ELSE CHOOSE w \in found : TRUE

\* replace(/\b(inc|ltd|llc|ab|corp|gmbh|ag|sa|plc)\b\.?/gi, '')
RECURSIVE removeSuffixes(_, _)
removeSuffixes(prev, rest) ==
    IF rest = <<>> THEN <<>>
    ELSE LET w == suffixAt(prev, rest)
             after == SubSeq(rest, Len(w) + 1, Len(rest))
         IN IF w = <<>>
            THEN <<Head(rest)>> \o removeSuffixes(Head(rest), Tail(rest))
            ELSE IF after # <<>> /\ Head(after) = "."
                 THEN removeSuffixes(".", Tail(after))
                 ELSE removeSuffixes(w[Len(w)], after)

normalizeName(name) ==
    trim(removeSuffixes(" ",
        removePunctuation(collapseSpaces(trim(toLowerCase(name))))))

(***************************************************************************)
(* Entity deduplication (deduplicateEntities of entityExtractor.js)        *)
(***************************************************************************)
\* config.entityExtraction.deduplicationThreshold, in hundredths
deduplicationThreshold == 85

\* Length of the slug of an entity id
SlugLength == 6

\* [a-z0-9]
SlugChars == Range(LowerCase) \cup Digits

\* name.toLowerCase().replace(/[^a-z0-9]/g, '').slice(0, 6)
RECURSIVE keepAlphanumeric(_)
keepAlphanumeric(str) ==
    IF str = <<>> THEN <<>>
    ELSE IF Head(str) \in SlugChars
         THEN <<Head(str)>> \o keepAlphanumeric(Tail(str))
         ELSE keepAlphanumeric(Tail(str))

\* `entity-${entityCounter}-${slug}`, counter being the value after entityCounter++
generateEntityId(name, counter) ==
    LET slug == keepAlphanumeric(toLowerCase(name))
    IN [counter |-> counter, slug |-> SubSeq(slug, 1, Min(SlugLength, Len(slug)))]

\* existing.extractionMethods.includes(...) || push
addMethod(methods, method) ==
    IF method \in Range(methods) THEN methods ELSE Append(methods, method)

\* normA === normB: the mention is the entity; an NLP mention takes over the name
exactMerge(existing, entity) ==
    LET upgrade == entity.extractedBy = "nlp" /\ existing.extractedBy # "nlp"
        named == IF upgrade
                 THEN [existing EXCEPT !.name = entity.name, !.extractedBy = "nlp"]
                 ELSE existing
    IN [named EXCEPT !.extractionMethods = addMethod(@, entity.extractedBy)]

\* Mutant: a near-duplicate also takes over the name of the entity
fuzzyMerge_Rename(existing, entity) ==
    [existing EXCEPT !.name = entity.name,
                     !.extractionMethods = addMethod(@, entity.extractedBy),
                     !.aliases = Append(@, entity.name)]

\* similarity(normA, normB) >= threshold: the mention's spelling becomes an alias
fuzzyMerge(existing, entity) ==
    [existing EXCEPT !.extractionMethods = addMethod(@, entity.extractedBy),
                     !.aliases = Append(@, entity.name)]

\* How a mention of normalised name normA matches an entity: by the equal
\* normalised name first, by similarity second
matchOf(normA, existing) ==
    LET normB == normalizeName(existing.name)
    IN IF normA = normB THEN "exact"
       ELSE LET score == similarity(normA, normB)
            IN IF score.num * 100 >= deduplicationThreshold * score.den
               THEN "fuzzy"
               ELSE "none"

\* unique.push({...})
newEntity(entity, counter) ==
    [id |-> generateEntityId(entity.name, counter),
     name |-> entity.name,
     normalizedName |-> normalizeName(entity.name),
     type |-> entity.type,
     extractedBy |-> entity.extractedBy,
     extractionMethods |-> <<entity.extractedBy>>,
     roles |-> <<>>,
     aliases |-> <<>>,
     confidence |-> 0]

\* for (const entity of rawEntities): merge into the first entity of unique
\* that the mention matches, or append a new entity
RECURSIVE resolveMentions(_, _, _)
resolveMentions(unique, raw, counter) ==
    IF raw = <<>> THEN [unique |-> unique, entityCounter |-> counter]
    ELSE LET entity == Head(raw)
             normA == normalizeName(entity.name)
             matches == [k \in DOMAIN unique |-> matchOf(normA, unique[k])]
             hits == {k \in DOMAIN unique : matches[k] # "none"}
             first == CHOOSE k \in hits : \A m \in hits : k <= m
         IN IF hits = {}
            THEN resolveMentions(Append(unique, newEntity(entity, counter + 1)),
                                 Tail(raw), counter + 1)
            ELSE IF matches[first] = "exact"
                 THEN resolveMentions([unique EXCEPT ![first] = exactMerge(@, entity)],
                                      Tail(raw), counter)
                 ELSE resolveMentions([unique EXCEPT ![first] = fuzzyMerge(@, entity)],
                                      Tail(raw), counter)

deduplicateEntities(raw, counter) == resolveMentions(<<>>, raw, counter)

(***************************************************************************)
(* The deduplication model: a list of raw mentions is resolved, then       *)
(* resolved once more, or the resolved entities are resolved themselves    *)
(***************************************************************************)
MaxMentions == 3

Mention(name, type, extractedBy) ==
    [name |-> name, type |-> type, extractedBy |-> extractedBy]

\* "Mohamed Ali" found by pattern and by NLP, two near spellings found by NLP
\* of which the second is near the first only, and an organisation found by
\* pattern with a company suffix and by NLP in capitals
MentionPool ==
    {Mention(<<"M", "o", "h", "a", "m", "e", "d", " ", "A", "l", "i">>, "person", "regex"),
     Mention(<<"M", "o", "h", "a", "m", "e", "d", " ", "A", "l", "i">>, "person", "nlp"),
     Mention(<<"M", "o", "h", "a", "m", "m", "e", "d", " ", "A", "l", "i">>, "person", "nlp"),
     Mention(<<"M", "o", "h", "a", "m", "m", "e", "d", " ", "A", "l", "y">>, "person", "nlp"),
     Mention(<<"A", "c", "m", "e", " ", "C", "o", "r", "p", ".">>, "organization", "regex"),
     Mention(<<"A", "C", "M", "E">>, "organization", "nlp")}

InitDedup ==
    /\ pc = "raw"
    /\ rawEntities \in SeqsUpTo(MentionPool, MaxMentions)
    /\ entityCounter = 0
    /\ entities = <<>>
    /\ nameA = <<>>
    /\ nameB = <<>>
    /\ compared = Null
    /\ evidence = <<>>
    /\ sanctionsResult = Null
    /\ scoredResults = Null
    /\ hypotheses = <<>>
    /\ confidenceWarnings = <<>>
    /\ flagResult = Null
    /\ relationships = <<>>
    /\ networkGraph = Null
    /\ centrality = <<>>
    /\ CrossIdle
    /\ SuggestIdle
    /\ RunIdle
    /\ ExtIdle

\* const deduplicated = deduplicateEntities(rawEntities), a first or a second time
DeduplicateEntities ==
    /\ pc \in {"raw", "resolved"}
    /\ LET result == deduplicateEntities(rawEntities, entityCounter)
       IN /\ entities' = result.unique
          /\ entityCounter' = result.entityCounter
    /\ pc' = IF pc = "raw" THEN "resolved" ELSE "resolved again"
    /\ UNCHANGED <<rawEntities, nameA, nameB, compared, relationships, networkGraph,
                   centrality, flagVars,
                   crossVars, suggestVars, counterVars, runVars, extVars>>

\* deduplicateEntities(deduplicated): the resolved entities are the mentions
DeduplicateResolved ==
    /\ pc = "resolved"
    /\ rawEntities' = entities
    /\ LET result == deduplicateEntities(entities, entityCounter)
       IN /\ entities' = result.unique
          /\ entityCounter' = result.entityCounter
    /\ pc' = "resolved from entities"
    /\ UNCHANGED <<nameA, nameB, compared, relationships, networkGraph,
                   centrality, flagVars,
                   crossVars, suggestVars, counterVars, runVars, extVars>>

NextDedup == DeduplicateEntities \/ DeduplicateResolved

SpecDedup == InitDedup /\ [][NextDedup]_vars

(***************************************************************************)
(* Cross-referencer (crossReferencer.js): co-mentions, role linkage,       *)
(* sanctions cross-references and anomalies                                *)
(***************************************************************************)
\* record.field !== undefined
Has(record, field) == field \in DOMAIN record

\* config.crossReferencing.coMentionWindowChars
coMentionWindowChars == 200

\* config.crossReferencing.minCoMentions
minCoMentions == 2

\* config.crossReferencing.anomalyThresholdMultiplier
anomalyThresholdMultiplier == 3

\* Characters of text kept on either side of a co-mention as its context
ContextMargin == 20

\* haystack.includes(needle)
includes(haystack, needle) ==
    \E p \in 1..(Len(haystack) - Len(needle) + 1) :
        SubSeq(haystack, p, p + Len(needle) - 1) = needle

\* /\bword\b/ matches somewhere in str
includesWord(str, word) ==
    \E p \in 1..(Len(str) - Len(word) + 1) :
        /\ SubSeq(str, p, p + Len(word) - 1) = word
        /\ (p = 1 \/ ~IsWordChar(str[p - 1]))
        /\ (p + Len(word) > Len(str) \/ ~IsWordChar(str[p + Len(word)]))

\* The offsets (from 0) at which substring occurs in text, letter case apart
findAllPositions(text, substring) ==
    LET lower == toLowerCase(text)
        target == toLowerCase(substring)
    IN {p \in 0..(Len(lower) - 1) :
            /\ p + Len(target) <= Len(lower)
            /\ SubSeq(lower, p + 1, p + Len(target)) = target}

FINANCIAL_KEYWORDS ==
    {<<"f", "u", "n", "d", "i", "n", "g">>,
     <<"f", "u", "n", "d", "e", "d">>,
     <<"i", "n", "v", "e", "s", "t", "m", "e", "n", "t">>,
     <<"i", "n", "v", "e", "s", "t", "o", "r">>,
     <<"t", "r", "a", "n", "s", "a", "c", "t", "i", "o", "n">>,
     <<"t", "r", "a", "n", "s", "f", "e", "r">>,
     <<"p", "a", "y", "m", "e", "n", "t">>,
     <<"d", "o", "n", "a", "t", "i", "o", "n">>,
     <<"d", "o", "n", "a", "t", "e", "d">>,
     <<"f", "i", "n", "a", "n", "c", "i", "a", "l">>,
     <<"m", "o", "n", "e", "y", " ", "l", "a", "u", "n", "d", "e", "r", "i", "n", "g">>,
     <<"b", "a", "n", "k", " ", "a", "c", "c", "o", "u", "n", "t">>,
     <<"w", "i", "r", "e", " ", "t", "r", "a", "n", "s", "f", "e", "r">>,
     <<"o", "f", "f", "s", "h", "o", "r", "e">>,
     <<"s", "h", "e", "l", "l", " ", "c", "o", "m", "p", "a", "n", "y">>,
     <<"f", "i", "n", "a", "n", "s", "i", "e", "r", "i", "n", "g">>,
     <<"i", "n", "v", "e", "s", "t", "e", "r", "i", "n", "g">>,
     <<"t", "r", "a", "n", "s", "a", "k", "t", "i", "o", "n">>,
     <<"ö", "v", "e", "r", "f", "ö", "r", "i", "n", "g">>,
     <<"b", "e", "t", "a", "l", "n", "i", "n", "g">>,
     <<"p", "e", "n", "n", "i", "n", "g", "t", "v", "ä", "t", "t">>,
     <<"b", "a", "n", "k", "k", "o", "n", "t", "o">>,
     <<"s", "k", "a", "l", "b", "o", "l", "a", "g">>}

containsFinancialKeywords(text) ==
    LET lower == toLowerCase(text)
    IN \E kw \in FINANCIAL_KEYWORDS : includes(lower, kw)

\* CEO|director|founder|chairman|board|VD|ordförande|grundare|employed|works?|heads?
orgKeywords ==
    {<<"c", "e", "o">>,
     <<"d", "i", "r", "e", "c", "t", "o", "r">>,
     <<"f", "o", "u", "n", "d", "e", "r">>,
     <<"c", "h", "a", "i", "r", "m", "a", "n">>,
     <<"b", "o", "a", "r", "d">>,
     <<"v", "d">>,
     <<"o", "r", "d", "f", "ö", "r", "a", "n", "d", "e">>,
     <<"g", "r", "u", "n", "d", "a", "r", "e">>,
     <<"e", "m", "p", "l", "o", "y", "e", "d">>,
     <<"w", "o", "r", "k">>,
     <<"w", "o", "r", "k", "s">>,
     <<"h", "e", "a", "d">>,
     <<"h", "e", "a", "d", "s">>}

\* investigation|arrest|convicted|charged|incident|event|raid|seized
eventKeywords ==
    {<<"i", "n", "v", "e", "s", "t", "i", "g", "a", "t", "i", "o", "n">>,
     <<"a", "r", "r", "e", "s", "t">>,
     <<"c", "o", "n", "v", "i", "c", "t", "e", "d">>,
     <<"c", "h", "a", "r", "g", "e", "d">>,
     <<"i", "n", "c", "i", "d", "e", "n", "t">>,
     <<"e", "v", "e", "n", "t">>,
     <<"r", "a", "i", "d">>,
     <<"s", "e", "i", "z", "e", "d">>}

classifyRelationship(contextText) ==
    IF contextText = <<>> THEN "co-mention"
    ELSE IF containsFinancialKeywords(contextText) THEN "financial"
    ELSE IF \E kw \in orgKeywords : includesWord(toLowerCase(contextText), kw)
         THEN "organizational"
    ELSE IF \E kw \in eventKeywords : includesWord(toLowerCase(contextText), kw)
         THEN "event-based"
    ELSE "co-mention"

\* Mutant: the number of co-mentions adds nothing
calculateCoMentionConfidence_CountIgnored(coMention) ==
    Min(30 + (IF classifyRelationship(coMention.context) # "co-mention" THEN 20 ELSE 0), 100)

\* 0.3, plus 0.1 / 0.2 / 0.3 by count, plus 0.2 for an explicit type; hundredths
calculateCoMentionConfidence(coMention) ==
    LET byCount == IF coMention.count >= 5 THEN 30
                   ELSE IF coMention.count >= 3 THEN 20
                   ELSE IF coMention.count >= 2 THEN 10
                   ELSE 0
        byType == IF classifyRelationship(coMention.context) # "co-mention" THEN 20 ELSE 0
    IN Min(30 + byCount + byType, 100)

\* The pairs <<posA, posB>> of one text that count as co-mentions of a and b
coMentionHits(text, a, b) ==
    {h \in findAllPositions(text, a.name) \X findAllPositions(text, b.name) :
        /\ h[1] # h[2]
        /\ (IF h[1] > h[2] THEN h[1] - h[2] ELSE h[2] - h[1]) <= coMentionWindowChars}

\* The first of them in the order of the loops: posA outer, posB inner
firstHit(hits) ==
    CHOOSE h \in hits :
        \A g \in hits : h[1] < g[1] \/ (h[1] = g[1] /\ h[2] <= g[2])

\* text.slice(Math.max(0, start - 20), Math.min(text.length, end + 20))
contextOf(text, a, b, hit) ==
    LET start == Min(hit[1], hit[2])
        end == Max(hit[1], hit[2]) + Max(Len(a.name), Len(b.name))
    IN SubSeq(text, Max(0, start - ContextMargin) + 1, Min(Len(text), end + ContextMargin))

\* The pairs <<i, j>>, i < j, in the order of the two loops over the entities
RECURSIVE pairsFrom(_, _, _)
pairsFrom(i, j, n) ==
    IF i >= n THEN <<>>
    ELSE IF j > n THEN pairsFrom(i + 1, i + 2, n)
    ELSE <<<<i, j>>>> \o pairsFrom(i, j + 1, n)

\* The entry of coMentionMap for the pair <<i, j>> after all sources, or Null
coMentionEntry(ents, sources, pair) ==
    LET a == ents[pair[1]]
        b == ents[pair[2]]
        hitsIn == [k \in DOMAIN sources |-> coMentionHits(sources[k].text, a, b)]
        seen == {k \in DOMAIN sources : hitsIn[k] # {}}
        first == CHOOSE k \in seen : \A m \in seen : k <= m
    IN IF seen = {} THEN Null
       ELSE [entityA |-> a,
             entityB |-> b,
             count |-> SumSeq([k \in DOMAIN sources |-> Cardinality(hitsIn[k])]),
             context |-> contextOf(sources[first].text, a, b, firstHit(hitsIn[first])),
             source |-> sources[first].source,
             firstSeen |-> first]

\* The entries in the order in which their keys were put into the map: by the
\* source that first showed the pair, then by the pair
RECURSIVE entriesInMapOrder(_, _, _)
entriesInMapOrder(entries, k, n) ==
    IF k > n THEN <<>>
    ELSE SelectSeq(entries, LAMBDA e : e # Null /\ e.firstSeen = k)
         \o entriesInMapOrder(entries, k + 1, n)

detectCoMentions(ents, sources) ==
    LET pairs == pairsFrom(1, 2, Len(ents))
        entries == [p \in DOMAIN pairs |-> coMentionEntry(ents, sources, pairs[p])]
        ordered == entriesInMapOrder(entries, 1, Len(sources))
        kept == SelectSeq(ordered, LAMBDA e : e.count >= minCoMentions)
    IN [k \in DOMAIN kept |->
          [entityA |-> kept[k].entityA, entityB |-> kept[k].entityB,
           count |-> kept[k].count, context |-> kept[k].context,
           source |-> kept[k].source]]

\* What a call returns when it throws
Raised(error) == [raised |-> error]

HasRaised(result) == "raised" \in DOMAIN result

RECURSIVE Flatten(_)
Flatten(lists) == IF lists = <<>> THEN <<>> ELSE Head(lists) \o Flatten(Tail(lists))

\* Step 1: one relationship per co-mention record
coMentionRelationship(cm) ==
    [from |-> cm.entityA.id,
     to |-> cm.entityB.id,
     type |-> classifyRelationship(cm.context),
     label |-> IF cm.entityA.roles = <<>> THEN "co-mentioned" ELSE cm.entityA.roles[1],
     confidence |-> calculateCoMentionConfidence(cm),
     evidence |-> <<[description |-> "Co-mentioned", count |-> cm.count,
                     source |-> cm.source]>>,
     detectedVia |-> "co-mention"]

\* Step 2: entity.roles.length > 0 && entity.type === 'person'
holdsRole(entity) == Len(entity.roles) > 0 /\ entity.type = "person"

\* Mutant: the link is labelled with the last role
roleRelationship_LastRole(entity) ==
    [from |-> entity.id,
     to |-> TargetId,
     type |-> "organizational",
     label |-> entity.roles[Len(entity.roles)],
     confidence |-> entity.confidence,
     evidence |-> <<[description |-> "Identified as", roles |-> entity.roles]>>,
     detectedVia |-> "entity-extraction"]

roleRelationship(entity) ==
    [from |-> entity.id,
     to |-> TargetId,
     type |-> "organizational",
     label |-> entity.roles[1],
     confidence |-> entity.confidence,
     evidence |-> <<[description |-> "Identified as", roles |-> entity.roles]>>,
     detectedVia |-> "entity-extraction"]

\* ev.matchedName is there and is not the empty string
hasMatchedName(ev) == Has(ev, "matchedName") /\ ev.matchedName # <<>>

\* Step 3: ev.matchedName &&
\*         entity.name.toLowerCase().includes(ev.matchedName.toLowerCase())
isSanctionsLink(entity, ev) ==
    /\ hasMatchedName(ev)
    /\ includes(toLowerCase(entity.name), toLowerCase(ev.matchedName))

sanctionsRelationship(entity, ev) ==
    [from |-> entity.id,
     to |-> TargetId,
     type |-> "sanctions-link",
     label |-> "sanctions match",
     confidence |-> 90,
     evidence |-> <<[description |-> "matches sanctions entry",
                     matchedName |-> ev.matchedName, source |-> ev.source]>>,
     detectedVia |-> "sanctions-match"]

\* entityLower.includes(matchLower) || matchLower.includes(entityLower)
isCrossListPresence(entity, ev) ==
    /\ hasMatchedName(ev)
    /\ \/ includes(toLowerCase(entity.name), toLowerCase(ev.matchedName))
       \/ includes(toLowerCase(ev.matchedName), toLowerCase(entity.name))

mentionCountOf(entity) == IF entity.mentionCount = 0 THEN 1 ELSE entity.mentionCount

\* count >= avgMentions * multiplier && count >= 3, the average kept as sum / n
isFrequencySpike(entity, ents) ==
    LET total == SumSeq([k \in DOMAIN ents |-> mentionCountOf(ents[k])])
    IN /\ mentionCountOf(entity) * Len(ents) >= total * anomalyThresholdMultiplier
       /\ mentionCountOf(entity) >= 3

detectAnomalies(ents, evidenceList) ==
    LET spikes == SelectSeq(ents, LAMBDA e : isFrequencySpike(e, ents))
        total == SumSeq([k \in DOMAIN ents |-> mentionCountOf(ents[k])])
    IN [k \in DOMAIN spikes |->
          [type |-> "frequency-spike", entityId |-> spikes[k].id,
           severity |-> IF mentionCountOf(spikes[k]) * Len(ents) >= total * 5
                        THEN "high" ELSE "medium",
           source |-> ""]]
       \o Flatten([i \in DOMAIN ents |->
             LET found == SelectSeq(evidenceList,
                                    LAMBDA ev : isCrossListPresence(ents[i], ev))
             IN [k \in DOMAIN found |->
                   [type |-> "cross-list-presence", entityId |-> ents[i].id,
                    severity |-> "high", source |-> found[k].source]]])

\* entity.roles.length and cm.entityA.roles[0] throw on an entity without roles
crossReference(ents, evidenceList, targetOrgName, sources) ==
    IF \E i \in DOMAIN ents : ~Has(ents[i], "roles")
    THEN Raised("TypeError")
    ELSE LET coMentions == detectCoMentions(ents, sources)
             linked == SelectSeq(ents, holdsRole)
             rels ==
                [k \in DOMAIN coMentions |-> coMentionRelationship(coMentions[k])]
                \o [k \in DOMAIN linked |-> roleRelationship(linked[k])]
                \o Flatten([i \in DOMAIN ents |->
                      LET found == SelectSeq(evidenceList,
                                             LAMBDA ev : isSanctionsLink(ents[i], ev))
                      IN [k \in DOMAIN found |->
                            sanctionsRelationship(ents[i], found[k])]])
             anomalies == detectAnomalies(ents, evidenceList)
         IN [relationships |-> rels,
             anomalies |-> anomalies,
             coMentions |-> coMentions,
             summary |-> [totalRelationships |-> Len(rels),
                          totalAnomalies |-> Len(anomalies)]]

(***************************************************************************)
(* Extraction from several texts (entityExtractor.js).  A text is given by *)
(* what the two extraction passes find in it: the raw mentions of the NLP  *)
(* pass and of the pattern pass in their order, the role mentions each     *)
(* with the name that stands nearest to it within ROLE_PROXIMITY           *)
(* characters, and the names at the places findMentionContexts finds.      *)
(***************************************************************************)
\* config.entityExtraction.minConfidence, in hundredths
minConfidence == 30

\* config.entityExtraction.maxEntitiesPerText
maxEntitiesPerText == 50

\* closestEntity.roles.push(role.role) unless included; the closest entity is
\* the first of the entities whose name stands nearest
RECURSIVE assignRoles(_, _)
assignRoles(ents, roleMentions) ==
    IF roleMentions = <<>> THEN ents
    ELSE LET role == Head(roleMentions)
             near == {k \in DOMAIN ents : ents[k].name = role.near}
             closest == CHOOSE k \in near : \A m \in near : k <= m
         IN IF near = {} \/ role.role \in Range(ents[closest].roles)
            THEN assignRoles(ents, Tail(roleMentions))
            ELSE assignRoles([ents EXCEPT ![closest].roles = Append(@, role.role)],
                             Tail(roleMentions))

\* The confidence of one entity, in hundredths
scoreConfidence(entity) ==
    LET hasNlp == "nlp" \in Range(entity.extractionMethods)
        hasRegex == "regex" \in Range(entity.extractionMethods)
        hasRole == Len(entity.roles) > 0
    IN IF hasNlp /\ hasRole THEN 90
       ELSE IF hasNlp /\ hasRegex THEN 85
       ELSE IF hasNlp THEN 75
       ELSE IF hasRegex /\ hasRole THEN 70
       ELSE IF hasRegex THEN 50
       ELSE 30

\* entity.mentionContexts.length || 1
mentionCount(entity, text) ==
    LET found == CountWhere(text.contexts, LAMBDA name : name = entity.name)
    IN IF found = 0 THEN 1 ELSE found

\* The context metadata of an entity, after its confidence was scored
enrich(entity, text) ==
    [id |-> entity.id,
     name |-> entity.name,
     normalizedName |-> entity.normalizedName,
     type |-> entity.type,
     extractedBy |-> entity.extractedBy,
     extractionMethods |-> entity.extractionMethods,
     roles |-> entity.roles,
     aliases |-> entity.aliases,
     confidence |-> scoreConfidence(entity),
     sourceText |-> text.source,
     mentionCount |-> mentionCount(entity, text)]

\* filtered.slice(0, maxEntities)
limitEntities(filtered) == SubSeq(filtered, 1, Min(maxEntitiesPerText, Len(filtered)))

\* What extractEntities makes of the deduplicated entities
enrichAll(deduplicated, text) ==
    LET withRoles == assignRoles(deduplicated, text.roleMentions)
    IN limitEntities(SelectSeq(MapSeq(withRoles, LAMBDA e : enrich(e, text)),
                               LAMBDA e : e.confidence >= minConfidence))

extractedOf(resolved, text) ==
    [entities |-> enrichAll(resolved.unique, text),
     entityCounter |-> resolved.entityCounter]

\* extractEntities(text, context) with the entity counter as it stands
extractEntities(text, counter) ==
    IF text.mentions = <<>> /\ text.roleMentions = <<>>
    THEN [entities |-> <<>>, entityCounter |-> counter]
    ELSE extractedOf(deduplicateEntities(text.mentions, counter), text)

\* for (const item of textObjects) allEntities.push(...result.entities)
RECURSIVE collectEntities(_, _, _)
RECURSIVE collectFrom(_, _, _)
collectEntities(allEntities, texts, counter) ==
    IF texts = <<>> THEN [entities |-> allEntities, entityCounter |-> counter]
    ELSE collectFrom(allEntities, texts, extractEntities(Head(texts), counter))

collectFrom(allEntities, texts, result) ==
    collectEntities(allEntities \o result.entities, Tail(texts), result.entityCounter)

\* for (const x of list) if (!into.includes(x)) into.push(x)
RECURSIVE pushMissing(_, _)
pushMissing(into, list) ==
    IF list = <<>> THEN into
    ELSE pushMissing(addMethod(into, Head(list)), Tail(list))

\* Mutant: the merged entity keeps only its own mention count
mergeInto_OwnCount(existing, entity) ==
    [existing EXCEPT !.roles = pushMissing(@, entity.roles),
                     !.aliases = pushMissing(@, entity.aliases),
                     !.confidence = Max(@, entity.confidence)]

\* Merge: combine sources, roles, aliases
mergeInto(existing, entity) ==
    [existing EXCEPT !.mentionCount = @ + entity.mentionCount,
                     !.roles = pushMissing(@, entity.roles),
                     !.aliases = pushMissing(@, entity.aliases),
                     !.confidence = Max(@, entity.confidence)]

\* Deduplicate across all sources: merge into the first entity of merged
\* that the entity matches, or push a copy
RECURSIVE mergeAcrossSources(_, _)
mergeAcrossSources(merged, allEntities) ==
    IF allEntities = <<>> THEN merged
    ELSE LET entity == Head(allEntities)
             hits == {k \in DOMAIN merged :
                         matchOf(normalizeName(entity.name), merged[k]) # "none"}
             first == CHOOSE k \in hits : \A m \in hits : k <= m
         IN IF hits = {}
            THEN mergeAcrossSources(Append(merged, entity), Tail(allEntities))
            ELSE mergeAcrossSources([merged EXCEPT ![first] = mergeInto(@, entity)],
                                    Tail(allEntities))

\* Mutant: the entity counter runs on from the run before
resetCounter_Kept(counter) == counter

\* resetCounter()
resetCounter(counter) == 0

\* Remove the target org itself from the entity list
withoutTargetOrg(merged, target) ==
    SelectSeq(merged, LAMBDA e : normalizeName(e.name) # normalizeName(target))

extractionResult(filtered, counter) ==
    [entities |-> filtered,
     summary |-> [totalEntities |-> Len(filtered),
                  people |-> CountWhere(filtered, LAMBDA e : e.type = "person"),
                  organizations |->
                      CountWhere(filtered, LAMBDA e : e.type = "organization")],
     entityCounter |-> counter]

mergedResult(collected, target) ==
    extractionResult(withoutTargetOrg(mergeAcrossSources(<<>>, collected.entities), target),
                     collected.entityCounter)

extractFromMultipleTexts(texts, target, counter) ==
    mergedResult(collectEntities(<<>>, texts, resetCounter(counter)), target)

(***************************************************************************)
(* Name commonality (nameCommonality.js) and the hypothesis generator      *)
(* (hypothesisGenerator.js).  A confidence score is in ten-thousandths.    *)
(***************************************************************************)
\* str.split(/\s+/) of a trimmed string
RECURSIVE splitWords(_, _)
splitWords(word, rest) ==
    IF rest = <<>> THEN <<word>>
    ELSE IF Head(rest) \in WhiteSpace
         THEN <<word>> \o splitWords(<<>>, trimStart(rest))
         ELSE splitWords(Append(word, Head(rest)), Tail(rest))

\* The entries of the COMMON_*_FIRST sets that a drawn name can hold
COMMON_FIRST ==
    {<<"a", "l", "i">>, <<"o", "m", "a", "r">>,
     <<"m", "o", "h", "a", "m", "e", "d">>, <<"m", "o", "h", "a", "m", "m", "e", "d">>}

\* The entries of the COMMON_*_LAST sets that a drawn name can hold
COMMON_LAST ==
    {<<"k", "h", "a", "n">>, <<"a", "l", "-", "a", "l", "i">>}

isFirstNameCommon(name) == toLowerCase(name) \in COMMON_FIRST

isLastNameCommon(name) == toLowerCase(name) \in COMMON_LAST

\* frequencyEstimate of checkNameCommonality
checkNameCommonality(name) ==
    IF trim(name) = <<>> THEN "unknown"
    ELSE LET parts == splitWords(<<>>, trim(toLowerCase(name)))
             n == Len(parts)
             firstNameCommon == isFirstNameCommon(parts[1])
             lastNameCommon ==
                 /\ n > 1
                 /\ \/ isLastNameCommon(parts[n])
                    \/ (n > 2 /\ isLastNameCommon(parts[n - 1] \o <<"-">> \o parts[n]))
         IN IF firstNameCommon /\ lastNameCommon THEN "very-high"
            ELSE IF firstNameCommon \/ lastNameCommon THEN "high"
            ELSE "low"

checkAllNames(ents) ==
    LET common == SelectSeq(ents, LAMBDA e :
                      e.type = "person" /\ checkNameCommonality(e.name) # "low")
    IN [k \in DOMAIN common |->
          [entityId |-> common[k].id,
           nameFrequencyEstimate |-> checkNameCommonality(common[k].name)]]

confidenceToLevel(score) ==
    IF score >= 8000 THEN "high" ELSE IF score >= 5000 THEN "medium" ELSE "low"

\* baseConfidence || 0.3, plus 0.1 / 0.2 / 0.3 by the number of evidence items
calculateConfidence(evidenceCount, baseConfidence) ==
    Min((IF baseConfidence = 0 THEN 3000 ELSE baseConfidence * 100)
          + (IF evidenceCount >= 3 THEN 3000
             ELSE IF evidenceCount >= 2 THEN 2000
             ELSE IF evidenceCount >= 1 THEN 1000 ELSE 0),
        10000)

\* createHypothesis without its id, which generateHypotheses numbers in order
createHypothesis(type, confidenceScore, supporting, relatedEntities) ==
    [type |-> type,
     confidence |-> confidenceToLevel(confidenceScore),
     confidenceScore |-> confidenceScore,
     supportingEvidence |-> supporting,
     relatedEntities |-> relatedEntities]

withoutTarget(ids) == SelectSeq(ids, LAMBDA id : id # TargetId)

\* One hypothesis per edge found by a sanctions match or of type sanctions-link
\* for which the extraction holds an endpoint
generateSanctionsProximityHypotheses(scoredEvidence, graph, ents) ==
    LET relatedTo(edge) == SelectSeq(ents, LAMBDA e : e.id = edge.from \/ e.id = edge.to)
        sanctionsEdges ==
            SelectSeq(graph.edges, LAMBDA e :
                (e.detectedVia = "sanctions-match" \/ e.type = "sanctions-link")
                /\ relatedTo(e) # <<>>)
    IN [k \in DOMAIN sanctionsEdges |->
          LET edge == sanctionsEdges[k]
              entity == relatedTo(edge)[1]
              supporting == Len(SelectSeq(scoredEvidence,
                                          LAMBDA ev : isSanctionsLink(entity, ev)))
          IN createHypothesis("sanctions-proximity",
                              calculateConfidence(supporting, edge.confidence),
                              supporting,
                              withoutTarget(<<edge.from, edge.to>>))]

\* edge.from === 'org-target' ? edge.to : edge.from
personIdOf(edge) == IF edge.from = TargetId THEN edge.to ELSE edge.from

\* One hypothesis per id that an organizational edge names as the person, in
\* the order of the first such edge, if the extraction holds the id with a role
generateOrganizationalLinkHypotheses(graph, ents) ==
    LET orgEdges == SelectSeq(graph.edges, LAMBDA e : e.type = "organizational")
        firstOf(k) == \A m \in 1..(k - 1) : personIdOf(orgEdges[m]) # personIdOf(orgEdges[k])
        entityOf(id) == SelectSeq(ents, LAMBDA e : e.id = id)
        persons == SelectSeq([k \in DOMAIN orgEdges |->
                                 [id |-> personIdOf(orgEdges[k]), first |-> firstOf(k)]],
                             LAMBDA p : /\ p.first
                                        /\ entityOf(p.id) # <<>>
                                        /\ Len(entityOf(p.id)[1].roles) > 0)
    IN [k \in DOMAIN persons |->
          LET entity == entityOf(persons[k].id)[1]
              edges == SelectSeq(orgEdges, LAMBDA e : personIdOf(e) = persons[k].id)
          IN createHypothesis("organizational-link",
                              Min(5000 + entity.confidence * 30, 9000),
                              Len(edges),
                              <<persons[k].id>>)]

generateFinancialTrailHypotheses(graph) ==
    LET financialEdges == SelectSeq(graph.edges, LAMBDA e : e.type = "financial")
    IN [k \in DOMAIN financialEdges |->
          createHypothesis("financial-trail",
                           Min(4000 + financialEdges[k].confidence * 30, 8500),
                           Len(financialEdges[k].evidence),
                           withoutTarget(<<financialEdges[k].from, financialEdges[k].to>>))]

generateAnomalyHypotheses(crossRef) ==
    [k \in DOMAIN crossRef.anomalies |->
        LET anomaly == crossRef.anomalies[k]
        IN createHypothesis("pattern-anomaly",
                            IF anomaly.type = "cross-list-presence" THEN 8000
                            ELSE IF anomaly.type = "frequency-spike"
                                 THEN (IF anomaly.severity = "high" THEN 6000 ELSE 4000)
                                 ELSE 3000,
                            1,
                            <<anomaly.entityId>>)]

\* Array.prototype.sort((a, b) => b.confidenceScore - a.confidenceScore): stable
RECURSIVE insertByScore(_, _)
insertByScore(sorted, x) ==
    IF sorted = <<>> THEN <<x>>
    ELSE IF Head(sorted).confidenceScore >= x.confidenceScore
         THEN <<Head(sorted)>> \o insertByScore(Tail(sorted), x)
         ELSE <<x>> \o sorted

RECURSIVE sortByScore(_, _)
sortByScore(sorted, list) ==
    IF list = <<>> THEN sorted
    ELSE sortByScore(insertByScore(sorted, Head(list)), Tail(list))

\* Mutant: the numbering goes on from the counter's last value
resetHypothesisCounter_Kept(counter) == counter

\* hypothesisCounter = 0;
resetHypothesisCounter(counter) == 0

\* counter is the module-level hypothesisCounter as the call finds it
generateHypotheses(scoredEvidence, graph, crossRef, ents, counter) ==
    LET start == resetHypothesisCounter(counter)
        found == generateSanctionsProximityHypotheses(scoredEvidence, graph, ents)
                 \o generateOrganizationalLinkHypotheses(graph, ents)
                 \o generateFinancialTrailHypotheses(graph)
                 \o generateAnomalyHypotheses(crossRef)
        warnings == checkAllNames(ents)
        numbered == [k \in DOMAIN found |->
                        [id |-> start + k,
                         type |-> found[k].type,
                         confidence |-> found[k].confidence,
                         confidenceScore |-> found[k].confidenceScore,
                         supportingEvidence |-> found[k].supportingEvidence,
                         relatedEntities |-> found[k].relatedEntities,
                         warnings |-> SelectSeq(warnings, LAMBDA w :
                                         w.entityId \in Range(found[k].relatedEntities))]]
        filtered == SelectSeq(numbered, LAMBDA h : h.confidenceScore >= 2000)
    IN [hypotheses |-> sortByScore(<<>>, filtered),
        confidenceWarnings |-> warnings,
        hypothesisCounter |-> start + Len(found)]

(***************************************************************************)
(* The cross-reference model: step 6 of runAssessment, crossReference and  *)
(* then buildNetworkGraph on its relationships                             *)
(***************************************************************************)
MaxSources == 2

ALI_KHAN ==
    <<"A", "l", "i", " ", "K", "h", "a", "n">>

OMAR_AZIZ ==
    <<"O", "m", "a", "r", " ", "A", "z", "i", "z">>

NORDFUND ==
    <<"N", "o", "r", "d", "f", "u", "n", "d">>

\* A person with roles, a person without, an organisation with a role
CrossEntity1 == Entity("entity-1-a", ALI_KHAN, "person", <<"CEO", "founder">>, 90, 3)

CrossEntity2 == Entity("entity-2-b", OMAR_AZIZ, "person", <<>>, 75, 1)

CrossEntity3 == Entity("entity-3-c", NORDFUND, "organization", <<"director">>, 50, 2)

\* A person whose record has no roles field
CrossEntityNoRoles ==
    [f \in DOMAIN CrossEntity2 \ {"roles"} |-> CrossEntity2[f]]

CrossEntityLists ==
    {<<>>,
     <<CrossEntity1>>,
     <<CrossEntity1, CrossEntity2>>,
     <<CrossEntity2, CrossEntity1>>,
     <<CrossEntity1, CrossEntity2, CrossEntity3>>,
     <<CrossEntityNoRoles>>,
     <<CrossEntity1, CrossEntityNoRoles>>}

\* More than a window of text that names nobody
Filler == [i \in 1..(coMentionWindowChars + 5) |-> "-"]

\* The two persons once, side by side
TextOnce ==
    <<"A", "l", "i", " ", "K", "h", "a", "n", " ", "m", "e", "t", " ", "O",
      "m", "a", "r", " ", "A", "z", "i", "z", ".">>

\* One person three times and the other once, no keyword between them
TextThrice ==
    <<"O", "m", "a", "r", " ", "A", "z", "i", "z", ",", " ", "O", "m", "a",
      "r", " ", "A", "z", "i", "z", " ", "a", "n", "d", " ", "t", "h", "e",
      "n", " ", "O", "m", "a", "r", " ", "A", "z", "i", "z", " ", "t", "h",
      "a", "n", "k", "e", "d", " ", "A", "l", "i", " ", "K", "h", "a", "n",
      ".">>

\* The two persons further apart than the window
TextApart == ALI_KHAN \o Filler \o OMAR_AZIZ

\* The two persons twice, with a financial and an organisational keyword
TextPayment ==
    <<"A", "l", "i", " ", "K", "h", "a", "n", " ", "i", "s", " ", "t", "h",
      "e", " ", "C", "E", "O", ".", " ", "O", "m", "a", "r", " ", "A", "z",
      "i", "z", " ", "s", "e", "n", "t", " ", "a", " ", "p", "a", "y", "m",
      "e", "n", "t", " ", "t", "o", " ", "A", "l", "i", " ", "K", "h", "a",
      "n", ".">>

\* A person and the organisation twice each, with an organisational keyword
TextDirector ==
    <<"N", "o", "r", "d", "f", "u", "n", "d", " ", "d", "i", "r", "e", "c",
      "t", "o", "r", " ", "A", "l", "i", " ", "K", "h", "a", "n", ";", " ",
      "N", "o", "r", "d", "f", "u", "n", "d", ";", " ", "A", "l", "i", " ",
      "K", "h", "a", "n">>

TextPool ==
    {[text |-> TextOnce, source |-> "news"],
     [text |-> TextThrice, source |-> "ngo"],
     [text |-> TextApart, source |-> "forum"],
     [text |-> TextPayment, source |-> "court"],
     [text |-> TextDirector, source |-> "registry"]}

SanctionsEvidence(matchedName, source) ==
    [matchedName |-> matchedName, source |-> source, sourceType |-> "government"]

\* A sanctions entry in capitals that is an entity's name
MatchAli == SanctionsEvidence(<<"A", "L", "I", " ", "K", "H", "A", "N">>, "OFAC SDN List")

\* A sanctions entry that holds an entity's name and more
MatchOmarTrading ==
    SanctionsEvidence(<<"O", "m", "a", "r", " ", "A", "z", "i", "z", " ", "T", "r", "a", "d", "i", "n", "g">>,
                      "EU Sanctions List")

\* An evidence item that is no sanctions match
NoMatch == [source |-> "news", sourceType |-> "news"]

CrossEvidenceLists ==
    {<<>>, <<MatchAli>>, <<MatchOmarTrading>>, <<NoMatch, MatchOmarTrading, MatchAli>>}

InitCross ==
    /\ pc = "extracted"
    /\ entities \in CrossEntityLists
    /\ evidence \in CrossEvidenceLists
    /\ textSources \in SeqsUpTo(TextPool, MaxSources)
    /\ crossRefResult = Null
    /\ relationships = <<>>
    /\ networkGraph = Null
    /\ centrality = <<>>
    /\ sanctionsResult = Null
    /\ scoredResults = Null
    /\ hypotheses = <<>>
    /\ confidenceWarnings = <<>>
    /\ flagResult = Null
    /\ EntityIdle
    /\ SuggestIdle
    /\ RunIdle
    /\ ExtIdle

\* const crossRefResult = crossReference(entities, evidence, orgName, textSources);
\* its relationships are what buildNetworkGraph is handed next
CrossReference ==
    /\ pc = "extracted"
    /\ crossRefResult' = crossReference(entities, evidence, "Acme Corp", textSources)
    /\ IF HasRaised(crossRefResult')
       THEN pc' = "raised" /\ UNCHANGED relationships
       ELSE pc' = "entities" /\ relationships' = crossRefResult'.relationships
    /\ UNCHANGED <<entities, evidence, textSources, networkGraph, centrality,
                   sanctionsResult, scoredResults, hypotheses, confidenceWarnings,
                   flagResult, entityVars, suggestVars, counterVars, runVars, extVars>>

\* const { hypotheses, confidenceWarnings } = generateHypotheses(scoredResults,
\*     networkGraph, crossRefResult, extractionResult);
\* the scored evidence items are the evidence items, each with its scores added
GenerateHypotheses ==
    /\ pc = "built"
    /\ LET result == generateHypotheses(evidence, networkGraph, crossRefResult,
                                        entities, hypothesisCounter)
       IN /\ hypotheses' = result.hypotheses
          /\ confidenceWarnings' = result.confidenceWarnings
          /\ hypothesisCounter' = result.hypothesisCounter
    /\ pc' = "hypothesised"
    /\ UNCHANGED <<entities, evidence, relationships, networkGraph, centrality,
                   sanctionsResult, scoredResults, flagResult, entityVars,
                   crossVars, suggestVars, suggestionCounter, runVars, extVars>>

NextCross == CrossReference \/ BuildNetworkGraph \/ GenerateHypotheses

SpecCross == InitCross /\ [][NextCross]_vars

(***************************************************************************)
(* Investigation suggestions: generateSuggestions                          *)
(***************************************************************************)
\* createSuggestion without its id, which generateSuggestions numbers in order
createSuggestion(type, priority, actionable, relatedEntityId) ==
    [type |-> type,
     priority |-> priority,
     actionable |-> actionable,
     relatedEntityId |-> relatedEntityId]

checkSourceErrors(a) ==
    IF Len(a.sanctions.errors) > 0
    THEN <<createSuggestion("source-error", "high", TRUE, "null")>>
    ELSE <<>>

\* entity.type === 'person' && (!entity.roles || entity.roles.length === 0),
\* and entity.confidence >= 0.5
lacksRole(entity) ==
    /\ entity.type = "person"
    /\ (~Has(entity, "roles") \/ Len(entity.roles) = 0)
    /\ entity.confidence >= 50

checkMissingRoles(a) ==
    LET found == SelectSeq(a.entities.entities, lacksRole)
    IN [k \in DOMAIN found |->
          createSuggestion("missing-role", "medium", TRUE, found[k].id)]

checkNearThreshold(a) ==
    IF ~Has(a, "thresholdInfo")
    THEN <<>>
    ELSE LET threshold == a.thresholdInfo
         IN (IF threshold.currentFlag = "GREEN" /\ threshold.distanceToYellow <= 1
             THEN <<createSuggestion("near-threshold", "high", TRUE, "null")>>
             ELSE <<>>)
            \o (IF threshold.currentFlag = "YELLOW"
                THEN <<createSuggestion("near-threshold", "high", FALSE, "null")>>
                ELSE <<>>)

\* hyp.confidence === 'low' || (hyp.confidenceScore && hyp.confidenceScore < 0.5)
isLowConfidence(hyp) ==
    \/ hyp.confidence = "low"
    \/ (hyp.confidenceScore # 0 /\ hyp.confidenceScore < 50)

checkLowConfidenceHypotheses(a) ==
    LET found == SelectSeq(a.hypotheses, isLowConfidence)
    IN [k \in DOMAIN found |->
          createSuggestion("low-confidence", "medium",
                           Len(found[k].relatedEntities) > 0,
                           IF Len(found[k].relatedEntities) > 0
                           THEN found[k].relatedEntities[1] ELSE "null")]

checkUnexploredConnections(a) ==
    LET edges == a.networkGraph.edges
        unlinked(entity) ==
            /\ entity.mentionCount >= 3
            /\ ~\E e \in DOMAIN edges :
                    edges[e].from = entity.id \/ edges[e].to = entity.id
        found == SelectSeq(a.entities.entities, unlinked)
    IN [k \in DOMAIN found |->
          createSuggestion("unexplored", "medium", TRUE, found[k].id)]

checkCommonNames(a) ==
    [k \in DOMAIN a.confidenceWarnings |->
        createSuggestion("common-name",
                         IF a.confidenceWarnings[k].nameFrequencyEstimate = "very-high"
                         THEN "high" ELSE "medium",
                         TRUE, a.confidenceWarnings[k].entityId)]

checkTranslationGaps(a) ==
    LET lang == a.languageProcessing
        nonEnSv == SelectSeq(lang.languagesDetected,
                             LAMBDA l : l \notin {"eng", "swe", "und"})
    IN IF /\ lang.textsProcessed > 0
          /\ Len(nonEnSv) > 0
          /\ lang.translationsPerformed = 0
       THEN <<createSuggestion("translation-gap", "medium", FALSE, "null")>>
       ELSE <<>>

\* const priorityOrder = { high: 0, medium: 1, low: 2 };
priorityOrder(priority) ==
    CASE priority = "high" -> 0
      [] priority = "medium" -> 1
      [] priority = "low" -> 2

\* priorityOrder[s.priority] || 2 : the falsy 0 of high gives way to 2
sortKey(suggestion) ==
    IF priorityOrder(suggestion.priority) = 0 THEN 2 ELSE priorityOrder(suggestion.priority)

\* Array.prototype.sort by the difference of the keys: stable, so suggestions
\* of equal key keep their order
sortByPriority(list) ==
    SelectSeq(list, LAMBDA x : sortKey(x) = 0)
    \o SelectSeq(list, LAMBDA x : sortKey(x) = 1)
    \o SelectSeq(list, LAMBDA x : sortKey(x) = 2)

\* Mutant: the numbering goes on from the counter's last value
resetSuggestionCounter_Kept(counter) == counter

\* suggestionCounter = 0;
resetSuggestionCounter(counter) == 0

\* counter is the module-level suggestionCounter as the call finds it
generateSuggestions(a, counter) ==
    LET start == resetSuggestionCounter(counter)
        found == checkSourceErrors(a)
                 \o checkMissingRoles(a)
                 \o checkNearThreshold(a)
                 \o checkLowConfidenceHypotheses(a)
                 \o checkUnexploredConnections(a)
                 \o checkCommonNames(a)
                 \o checkTranslationGaps(a)
        numbered == [k \in DOMAIN found |->
                        [id |-> start + k,
                         type |-> found[k].type,
                         priority |-> found[k].priority,
                         actionable |-> found[k].actionable,
                         relatedEntityId |-> found[k].relatedEntityId]]
        sorted == sortByPriority(numbered)
        withPriority(p) == Len(SelectSeq(sorted, LAMBDA x : x.priority = p))
    IN [suggestions |-> sorted,
        summary |-> [total |-> Len(sorted),
                     high |-> withPriority("high"),
                     medium |-> withPriority("medium"),
                     low |-> withPriority("low"),
                     actionable |-> Len(SelectSeq(sorted, LAMBDA x : x.actionable))],
        suggestionCounter |-> start + Len(found)]

(***************************************************************************)
(* The suggestions model: step 9 of runAssessment on assessment snapshots  *)
(***************************************************************************)
SanctionsSnapshots ==
    {[errors |-> <<>>], [errors |-> <<"timeout">>]}

SuggestEntityLists ==
    {<<>>,
     <<CrossEntity1>>,
     <<CrossEntity2>>,
     <<CrossEntity1, CrossEntity2>>,
     <<CrossEntityNoRoles, CrossEntity3>>}

ThresholdInfos ==
    {[currentFlag |-> "GREEN", distanceToYellow |-> 1],
     [currentFlag |-> "GREEN", distanceToYellow |-> 2],
     [currentFlag |-> "YELLOW", distanceToYellow |-> 0],
     [currentFlag |-> "RED", distanceToYellow |-> 0]}

SuggestHypothesisLists ==
    {<<>>,
     <<[confidence |-> "low", confidenceScore |-> 30, relatedEntities |-> <<"entity-1-a">>]>>,
     <<[confidence |-> "medium", confidenceScore |-> 45, relatedEntities |-> <<>>]>>,
     <<[confidence |-> "high", confidenceScore |-> 80, relatedEntities |-> <<"entity-1-a">>]>>}

SuggestEdgeLists ==
    {<<>>, <<[from |-> "entity-1-a", to |-> TargetId]>>}

SuggestWarningLists ==
    {<<>>,
     <<[nameFrequencyEstimate |-> "very-high", entityId |-> "entity-1-a"]>>,
     <<[nameFrequencyEstimate |-> "high", entityId |-> "entity-2-b"]>>}

LanguageSnapshots ==
    {[textsProcessed |-> 0, languagesDetected |-> <<>>, translationsPerformed |-> 0],
     [textsProcessed |-> 1, languagesDetected |-> <<"eng", "ara">>, translationsPerformed |-> 0],
     [textsProcessed |-> 1, languagesDetected |-> <<"ara">>, translationsPerformed |-> 1]}

\* The snapshots with a thresholdInfo and those without
Assessments ==
    LET base ==
            [sanctions : SanctionsSnapshots,
             entities : {[entities |-> l] : l \in SuggestEntityLists},
             hypotheses : SuggestHypothesisLists,
             networkGraph : {[edges |-> l] : l \in SuggestEdgeLists},
             confidenceWarnings : SuggestWarningLists,
             languageProcessing : LanguageSnapshots]
    IN base \cup
       {[f \in DOMAIN b \cup {"thresholdInfo"} |->
            IF f = "thresholdInfo" THEN t ELSE b[f]] : b \in base, t \in ThresholdInfos}

InitSuggest ==
    /\ pc = "assessed"
    /\ assessment \in Assessments
    /\ suggestions = Null
    /\ evidence = <<>>
    /\ sanctionsResult = Null
    /\ scoredResults = Null
    /\ hypotheses = <<>>
    /\ confidenceWarnings = <<>>
    /\ flagResult = Null
    /\ entities = <<>>
    /\ relationships = <<>>
    /\ networkGraph = Null
    /\ centrality = <<>>
    /\ EntityIdle
    /\ CrossIdle
    /\ RunIdle
    /\ ExtIdle

\* assessment.suggestions = generateSuggestions(assessment);
GenerateSuggestions ==
    /\ pc = "assessed"
    /\ LET result == generateSuggestions(assessment, suggestionCounter)
       IN /\ suggestions' = [suggestions |-> result.suggestions,
                             summary |-> result.summary]
          /\ suggestionCounter' = result.suggestionCounter
    /\ pc' = "suggested"
    /\ UNCHANGED <<assessment, flagVars, graphVars, entityVars, crossVars,
                   hypothesisCounter, runVars, extVars>>

NextSuggest == GenerateSuggestions

SpecSuggest == InitSuggest /\ [][NextSuggest]_vars

(***************************************************************************)
(* runAssessment calls of one process (index.js).  A run is suspended at   *)
(* its awaits (sanctions, PDFs, languages); what follows the last await,   *)
(* steps 5 to 9, holds no await and runs as one synchronous section.  The  *)
(* three id counters are module-level and shared by the runs.  The  *)
(* steps between the generators touch no counter: the run's inputs give    *)
(* what they hand to generateHypotheses and to generateSuggestions.        *)
(***************************************************************************)
MaxRuns == 2

MaxTexts == 2

MOHAMED_ALI == <<"M", "o", "h", "a", "m", "e", "d", " ", "A", "l", "i">>

MOHAMMED_ALI == <<"M", "o", "h", "a", "m", "m", "e", "d", " ", "A", "l", "i">>

MOHAMMED_ALY == <<"M", "o", "h", "a", "m", "m", "e", "d", " ", "A", "l", "y">>

ACME_CORP == <<"A", "c", "m", "e", " ", "C", "o", "r", "p", ".">>

TextObject(source, mentions, roleMentions, contexts) ==
    [source |-> source, mentions |-> mentions, roleMentions |-> roleMentions,
     contexts |-> contexts]

\* A person found by both passes and holding a role, and the subject
TextObjectRegistry ==
    TextObject("registry",
               <<Mention(MOHAMED_ALI, "person", "nlp"),
                 Mention(MOHAMED_ALI, "person", "regex"),
                 Mention(ACME_CORP, "organization", "regex")>>,
               <<[role |-> "CEO", near |-> MOHAMED_ALI]>>,
               <<MOHAMED_ALI, MOHAMED_ALI, ACME_CORP>>)

\* Two spellings that are not near each other
TextObjectNews ==
    TextObject("news",
               <<Mention(MOHAMED_ALI, "person", "nlp"),
                 Mention(MOHAMMED_ALY, "person", "nlp")>>,
               <<>>,
               <<MOHAMED_ALI>>)

\* A PDF with two spellings that are not near each other, then one that is
\* near both
TextObjectPdf ==
    TextObject("pdf",
               <<Mention(MOHAMMED_ALY, "person", "regex"),
                 Mention(MOHAMED_ALI, "person", "regex"),
                 Mention(MOHAMMED_ALI, "person", "nlp")>>,
               <<[role |-> "founder", near |-> MOHAMMED_ALY]>>,
               <<MOHAMMED_ALY, MOHAMMED_ALY>>)

\* The spelling near both others, with a role, and the subject in capitals
TextObjectNgo ==
    TextObject("ngo",
               <<Mention(MOHAMMED_ALI, "person", "nlp"),
                 Mention(<<"A", "C", "M", "E">>, "organization", "nlp")>>,
               <<[role |-> "director", near |-> MOHAMMED_ALI]>>,
               <<>>)

\* An empty text
TextObjectEmpty == TextObject("web", <<>>, <<>>, <<>>)

TextObjectPool ==
    {TextObjectRegistry, TextObjectNews, TextObjectPdf, TextObjectNgo, TextObjectEmpty}

\* What steps 6 and 7 hand to generateHypotheses
hypothesisInputOf(ents, evidenceList, crossRef) ==
    [scoredEvidence |-> evidenceList,
     networkGraph |-> buildNetworkGraph("Acme Corp", ents, crossRef.relationships),
     crossRefResult |-> crossRef,
     entities |-> ents]

\* An assessment that calls for no follow-up
AssessmentQuiet ==
    [sanctions |-> [errors |-> <<>>],
     entities |-> [entities |-> <<>>],
     hypotheses |-> <<>>,
     networkGraph |-> [edges |-> <<>>],
     confidenceWarnings |-> <<>>,
     languageProcessing |->
         [textsProcessed |-> 0, languagesDetected |-> <<>>, translationsPerformed |-> 0]]

\* An assessment that calls for several follow-ups
AssessmentOpen ==
    [sanctions |-> [errors |-> <<"timeout">>],
     entities |-> [entities |-> <<CrossEntity1, CrossEntity2>>],
     hypotheses |->
         <<[confidence |-> "low", confidenceScore |-> 30,
            relatedEntities |-> <<"entity-1-a">>]>>,
     networkGraph |-> [edges |-> <<>>],
     confidenceWarnings |->
         <<[nameFrequencyEstimate |-> "very-high", entityId |-> "entity-1-a"]>>,
     languageProcessing |->
         [textsProcessed |-> 1, languagesDetected |-> <<"ara">>,
          translationsPerformed |-> 0],
     thresholdInfo |-> [currentFlag |-> "GREEN", distanceToYellow |-> 1]]

\* The entities, the evidence and the text sources that steps 5 and 2 leave,
\* and the assessment that step 8 leaves
FoundBefore ==
    {[entities |-> <<>>, evidence |-> <<>>, textSources |-> <<>>,
      assessment |-> AssessmentQuiet],
     [entities |-> <<CrossEntity1>>, evidence |-> <<MatchAli>>, textSources |-> <<>>,
      assessment |-> AssessmentOpen],
     [entities |-> <<CrossEntity1, CrossEntity2, CrossEntity3>>,
      evidence |-> <<NoMatch, MatchOmarTrading, MatchAli>>,
      textSources |-> <<[text |-> TextDirector, source |-> "registry"]>>,
      assessment |-> AssessmentOpen]}

\* What the steps before hand to generateHypotheses and to generateSuggestions
GeneratorInputs ==
    {[hypothesisInput |->
          hypothesisInputOf(found.entities, found.evidence,
                            crossReference(found.entities, found.evidence, "Acme Corp",
                                           found.textSources)),
      assessment |-> found.assessment] : found \in FoundBefore}

\* The arguments of a runAssessment call and what its first four steps yield
RunInput(name, texts, given) ==
    [orgName |-> name, textObjects |-> texts,
     hypothesisInput |-> given.hypothesisInput, assessment |-> given.assessment]

RunInputs ==
    {RunInput(name, texts, given) :
        name \in {ACME_CORP, NORDFUND},
        texts \in SeqsUpTo(TextObjectPool, MaxTexts),
        given \in GeneratorInputs}

\* The calls taken when two requests are served at once
ConcurrentInputs ==
    {RunInput(ACME_CORP, texts, given) :
        texts \in {<<TextObjectRegistry>>, <<TextObjectPdf, TextObjectNgo>>},
        given \in GeneratorInputs}

\* pdfPaths.length > 0: one of the texts is that of a PDF
hasPdfs(input) ==
    \E t \in DOMAIN input.textObjects : input.textObjects[t].source = "pdf"

\* What steps 5 to 9 leave: the assessment's lists and the three counters
sectionResult(extraction, generated, suggested) ==
    [entities |-> extraction.entities,
     hypotheses |-> generated.hypotheses,
     suggestions |-> suggested.suggestions,
     entityCounter |-> extraction.entityCounter,
     hypothesisCounter |-> generated.hypothesisCounter,
     suggestionCounter |-> suggested.suggestionCounter]

hypothesesOf(given, counter) ==
    generateHypotheses(given.scoredEvidence, given.networkGraph, given.crossRefResult,
                       given.entities, counter)

\* steps 5 to 9 with the three counters as the section finds them
synchronousSteps(input, entityIds, hypothesisIds, suggestionIds) ==
    sectionResult(extractFromMultipleTexts(input.textObjects, input.orgName, entityIds),
                  hypothesesOf(input.hypothesisInput, hypothesisIds),
                  generateSuggestions(input.assessment, suggestionIds))

InitRuns ==
    /\ pc = "serving"
    /\ runs = <<>>
    /\ entityCounter = 0
    /\ hypothesisCounter = 0
    /\ suggestionCounter = 0
    /\ earlierFlag = Null
    /\ nameA = <<>>
    /\ nameB = <<>>
    /\ compared = Null
    /\ rawEntities = <<>>
    /\ evidence = <<>>
    /\ sanctionsResult = Null
    /\ scoredResults = Null
    /\ hypotheses = <<>>
    /\ confidenceWarnings = <<>>
    /\ flagResult = Null
    /\ entities = <<>>
    /\ relationships = <<>>
    /\ networkGraph = Null
    /\ centrality = <<>>
    /\ CrossIdle
    /\ SuggestIdle
    /\ ExtIdle

runUnchanged ==
    <<pc, flagVars, graphVars, nameA, nameB, compared, rawEntities, crossVars,
      suggestVars, earlierFlag, extVars>>

\* runAssessment(orgName, seeds, pdfPaths) up to await checkAllSanctions
newRun(input) ==
    [at |-> "sanctions", input |-> input, entities |-> <<>>, hypotheses |-> <<>>,
     suggestions |-> <<>>]

\* A request is served while others may be under way
StartRun ==
    /\ Len(runs) < MaxRuns
    /\ \E input \in ConcurrentInputs : runs' = Append(runs, newRun(input))
    /\ UNCHANGED <<entityCounter, counterVars, runUnchanged>>

\* The first call, and the same call again after the call before has returned
StartRunInSequence ==
    /\ Len(runs) < MaxRuns
    /\ \A r \in DOMAIN runs : runs[r].at = "done"
    /\ \E input \in RunInputs :
          /\ runs # <<>> => input = runs[1].input
          /\ runs' = Append(runs, newRun(input))
    /\ UNCHANGED <<entityCounter, counterVars, runUnchanged>>

\* await checkAllSanctions returns; the run goes on to the next await
SanctionsChecked ==
    \E r \in DOMAIN runs :
        /\ runs[r].at = "sanctions"
        /\ runs' = [runs EXCEPT ![r].at = IF hasPdfs(runs[r].input) THEN "pdfs"
                                          ELSE "languages"]
        /\ UNCHANGED <<entityCounter, counterVars, runUnchanged>>

\* await extractFromMultiplePDFs returns
PdfsExtracted ==
    \E r \in DOMAIN runs :
        /\ runs[r].at = "pdfs"
        /\ runs' = [runs EXCEPT ![r].at = "languages"]
        /\ UNCHANGED <<entityCounter, counterVars, runUnchanged>>

\* The run returns the assessment; the counters stay as the section left them
finishRun(r, result) ==
    /\ runs' = [runs EXCEPT ![r].at = "done",
                            ![r].entities = result.entities,
                            ![r].hypotheses = result.hypotheses,
                            ![r].suggestions = result.suggestions]
    /\ entityCounter' = result.entityCounter
    /\ hypothesisCounter' = result.hypothesisCounter
    /\ suggestionCounter' = result.suggestionCounter

\* await processLanguages returns and steps 5 to 9 run to the end
LanguagesProcessed ==
    \E r \in DOMAIN runs :
        /\ runs[r].at = "languages"
        /\ finishRun(r, synchronousSteps(runs[r].input, entityCounter,
                                         hypothesisCounter, suggestionCounter))
        /\ UNCHANGED runUnchanged

NextSequence ==
    \/ StartRunInSequence
    \/ SanctionsChecked
    \/ PdfsExtracted
    \/ LanguagesProcessed

SpecSequence == InitRuns /\ [][NextSequence]_vars

NextConcurrent ==
    \/ StartRun
    \/ SanctionsChecked
    \/ PdfsExtracted
    \/ LanguagesProcessed

SpecConcurrent == InitRuns /\ [][NextConcurrent]_vars

(***************************************************************************)
(* The background service worker of the extension (background.js).  An     *)
(* updateState call reads the stored state and later writes the state it   *)
(* read with its patch laid over it; other calls may read and write in     *)
(* between.  A step is the index of a STEPS entry plus one, no step is 0.  *)
(***************************************************************************)
\* START_ASSESSMENT messages the worker receives
MaxStarts == 2

\* Ticks of one step timer
MaxTicks == 1

\* STEPS.length
StepsLength == 10

NoStep == 0

OrgNames == {"Acme Corp", "Nordfund"}

DEFAULT_STATE ==
    [status |-> "idle", orgName |-> "null", seeds |-> <<>>, startedAt |-> "null",
     completedAt |-> "null", assessment |-> Null, error |-> "null",
     currentStep |-> NoStep]

\* What the server returns for a request
AssessmentOf(name) == [orgName |-> name]

\* result.kopplaState || { ...DEFAULT_STATE }
getState(stored) == IF stored = Null THEN DEFAULT_STATE ELSE stored

\* { ...current, ...patch }
mergePatch(current, patch) ==
    [f \in DOMAIN current |-> IF f \in DOMAIN patch THEN patch[f] ELSE current[f]]

\* An updateState(patch) call that has not read the stored state yet
updateState(patch, owner) ==
    [patch |-> patch, owner |-> owner, awaiting |-> "get", current |-> Null]

runningPatch(name) ==
    [status |-> "running", orgName |-> name, seeds |-> <<>>, startedAt |-> "time",
     completedAt |-> "null", assessment |-> Null, error |-> "null", currentStep |-> 1]

completedPatch(name) ==
    [status |-> "completed", completedAt |-> "time", assessment |-> AssessmentOf(name),
     currentStep |-> NoStep]

errorPatch ==
    [status |-> "error", error |-> "Assessment failed", currentStep |-> NoStep]

RemoveAt(list, k) == SubSeq(list, 1, k - 1) \o SubSeq(list, k + 1, Len(list))

extUnchanged ==
    <<pc, flagVars, graphVars, entityVars, crossVars, suggestVars, counterVars, runVars>>

\* The worker after onInstalled has stored the default state
InitExtension ==
    /\ pc = "installed"
    /\ kopplaState = DEFAULT_STATE
    /\ runners = <<>>
    /\ updates = <<>>
    /\ lastStarted = "null"
    /\ cleared = FALSE
    /\ evidence = <<>>
    /\ sanctionsResult = Null
    /\ scoredResults = Null
    /\ hypotheses = <<>>
    /\ confidenceWarnings = <<>>
    /\ flagResult = Null
    /\ entities = <<>>
    /\ relationships = <<>>
    /\ networkGraph = Null
    /\ centrality = <<>>
    /\ EntityIdle
    /\ CrossIdle
    /\ SuggestIdle
    /\ RunIdle

\* START_ASSESSMENT: runAssessmentInBackground is called and not awaited; it
\* runs up to its first await.  A CLEAR_STATE under way is no longer the last
\* message.
StartAssessment ==
    /\ Len(runners) < MaxStarts
    /\ \E name \in OrgNames :
          /\ runners' = Append(runners, [orgName |-> name, at |-> "settings",
                                         stepIndex |-> 0, stepTimer |-> FALSE])
          /\ lastStarted' = name
    /\ updates' = [u \in DOMAIN updates |->
                      IF updates[u].owner.kind = "clear"
                      THEN [updates[u] EXCEPT !.owner.overtaken = TRUE]
                      ELSE updates[u]]
    /\ cleared' = FALSE
    /\ UNCHANGED <<kopplaState, extUnchanged>>

\* CLEAR_STATE: updateState({ ...DEFAULT_STATE }) is called
ClearState ==
    /\ ~cleared
    /\ \A u \in DOMAIN updates : updates[u].owner.kind # "clear"
    /\ updates' = Append(updates, updateState(DEFAULT_STATE,
                                              [kind |-> "clear", overtaken |-> FALSE]))
    /\ UNCHANGED <<kopplaState, runners, lastStarted, cleared, extUnchanged>>

\* await chrome.storage.local.get(['serverUrl']) returns and the runner calls
\* updateState with the running patch
SettingsRead ==
    \E r \in DOMAIN runners :
        /\ runners[r].at = "settings"
        /\ runners' = [runners EXCEPT ![r].at = "starting"]
        /\ updates' = Append(updates, updateState(runningPatch(runners[r].orgName),
                                                  [kind |-> "runner", runner |-> r]))
        /\ UNCHANGED <<kopplaState, lastStarted, cleared, extUnchanged>>

\* const current = await getState()
UpdateRead ==
    \E u \in DOMAIN updates :
        /\ updates[u].awaiting = "get"
        /\ updates' = [updates EXCEPT ![u].awaiting = "set",
                                      ![u].current = getState(kopplaState)]
        /\ UNCHANGED <<kopplaState, runners, lastStarted, cleared, extUnchanged>>

\* What follows the await of the updateState call in its caller
afterUpdate(owner) ==
    /\ runners' =
          IF owner.kind # "runner" THEN runners
          ELSE IF runners[owner.runner].at = "starting"
               THEN [runners EXCEPT ![owner.runner].at = "fetching",
                                    ![owner.runner].stepTimer = TRUE]
               ELSE [runners EXCEPT ![owner.runner].at = "done"]
    /\ cleared' = IF owner.kind = "clear" THEN ~owner.overtaken ELSE cleared

\* await chrome.storage.local.set({ kopplaState: updated }) and the caller's
\* continuation: the runner sets its step timer and calls fetch, or returns;
\* the CLEAR_STATE handler responds
UpdateWrite ==
    \E u \in DOMAIN updates :
        /\ updates[u].awaiting = "set"
        /\ kopplaState' = mergePatch(updates[u].current, updates[u].patch)
        /\ updates' = RemoveAt(updates, u)
        /\ afterUpdate(updates[u].owner)
        /\ UNCHANGED <<lastStarted, extUnchanged>>

\* The setInterval callback: stepIndex++ and, below STEPS.length, an
\* updateState call that nothing waits for
Tick ==
    \E r \in DOMAIN runners :
        /\ runners[r].stepTimer
        /\ runners[r].stepIndex < MaxTicks
        /\ runners' = [runners EXCEPT ![r].stepIndex = @ + 1]
        /\ updates' = IF runners[r].stepIndex + 1 < StepsLength
                      THEN Append(updates,
                                  updateState([currentStep |-> runners[r].stepIndex + 2],
                                              [kind |-> "tick"]))
                      ELSE updates
        /\ UNCHANGED <<kopplaState, lastStarted, cleared, extUnchanged>>

\* await fetch and await res.json() return: the timer is cleared and
\* updateState is called with the completed patch
FetchCompleted ==
    \E r \in DOMAIN runners :
        /\ runners[r].at = "fetching"
        /\ runners' = [runners EXCEPT ![r].at = "finishing", ![r].stepTimer = FALSE]
        /\ updates' = Append(updates, updateState(completedPatch(runners[r].orgName),
                                                  [kind |-> "runner", runner |-> r]))
        /\ UNCHANGED <<kopplaState, lastStarted, cleared, extUnchanged>>

\* fetch throws or the server answers with an error: the timer is cleared and
\* updateState is called with the error patch
FetchFailed ==
    \E r \in DOMAIN runners :
        /\ runners[r].at = "fetching"
        /\ runners' = [runners EXCEPT ![r].at = "finishing", ![r].stepTimer = FALSE]
        /\ updates' = Append(updates, updateState(errorPatch,
                                                  [kind |-> "runner", runner |-> r]))
        /\ UNCHANGED <<kopplaState, lastStarted, cleared, extUnchanged>>

NextExtension ==
    \/ StartAssessment
    \/ ClearState
    \/ SettingsRead
    \/ UpdateRead
    \/ UpdateWrite
    \/ Tick
    \/ FetchCompleted
    \/ FetchFailed

SpecExtension == InitExtension /\ [][NextExtension]_vars

(***************************************************************************)
(* Claims about the flag decision engine                                   *)
(***************************************************************************)
Flagged == pc = "flagged"

\* The conditions of the claims, read off the inputs of the assignFlag call
ScoredItems == scoredResults.scoredEvidence

SanctionsMatch == sanctionsResult.sanctioned

HasCourtItem == \E i \in DOMAIN ScoredItems : ScoredItems[i].sourceType = "court"

HasHighGovernmentItem ==
    \E i \in DOMAIN ScoredItems :
        ScoredItems[i].sourceType = "government" /\ ScoredItems[i].severity = "high"

CredibleItems == {i \in DOMAIN ScoredItems : ScoredItems[i].credibilityWeight >= 6}

ThreeCredible == Cardinality(CredibleItems) >= 3

AnyRedCondition ==
    SanctionsMatch \/ HasCourtItem \/ HasHighGovernmentItem \/ ThreeCredible

HasItemOfType(t) == \E i \in DOMAIN ScoredItems : ScoredItems[i].sourceType = t

HasPendingItem == \E i \in DOMAIN ScoredItems : ScoredItems[i].status = "pending"

HighHypotheses == {i \in DOMAIN hypotheses : hypotheses[i].confidence = "high"}

IndicatorCount ==
    (IF HasItemOfType("news") THEN 1 ELSE 0)
    + (IF HasItemOfType("ngo") THEN 1 ELSE 0)
    + (IF HasItemOfType("forum") THEN 1 ELSE 0)
    + (IF HasPendingItem THEN 1 ELSE 0)
    + Cardinality(HighHypotheses)

EveryPerformedCheckFailed ==
    \A i \in DOMAIN sanctionsResult.results : sanctionsResult.results[i].error

\* C1: assignFlag returns RED if and only if a sanctions match is present, or
\* a court item exists, or a high-severity government item exists, or at
\* least 3 scored items have credibility weight >= 6; in particular a
\* sanctions match gives RED whatever the evidence, hypotheses, warnings and
\* sanctions errors are.
C1_RedIffAnyRedCondition ==
    Flagged =>
        /\ (flagResult.flag = "RED") <=> AnyRedCondition
        /\ SanctionsMatch => flagResult.flag = "RED"

\* RED reached through the credible-source count alone
C1_Witness ==
    /\ Flagged
    /\ flagResult.flag = "RED"
    /\ ~SanctionsMatch /\ ~HasCourtItem /\ ~HasHighGovernmentItem
    /\ Cardinality(CredibleItems) = 3
    /\ Len(sanctionsResult.errors) > 0

C3_GreyIffNoDataAtAll ==
    Flagged =>
        LET quiet == ~AnyRedCondition /\ IndicatorCount < 2
            noData == Len(evidence) = 0 /\ EveryPerformedCheckFailed
        IN /\ (flagResult.flag = "GREY") <=> (quiet /\ noData)
           /\ (quiet /\ ~noData) => flagResult.flag = "GREEN"
           /\ flagResult.flag = "GREY" =>
                 /\ Len(evidence) = 0
                 /\ ~\E i \in DOMAIN sanctionsResult.results :
                        ~sanctionsResult.results[i].error

\* GREY reached with one high-confidence hypothesis present
C3_Witness ==
    /\ Flagged
    /\ flagResult.flag = "GREY"
    /\ Cardinality(HighHypotheses) = 1
    /\ Len(sanctionsResult.results) = NumSanctionsLists

\* The detail line and the reason each RED condition stands for
RedDetailText ==
    <<"Found on international sanctions list", "Court conviction(s) found",
      "Government ruling(s) found", "credible sources report concerns">>

RedReasonText ==
    <<"Organization found on international sanctions list",
      "Court conviction found against organization",
      "Government ruling found against organization",
      "credible sources report concerns">>

RedConditionHolds ==
    <<SanctionsMatch, HasCourtItem, HasHighGovernmentItem, ThreeCredible>>

FirstRedCondition == CHOOSE k \in 1..4 :
    RedConditionHolds[k] /\ \A j \in 1..(k - 1) : ~RedConditionHolds[j]

HasDetail(text) ==
    \E i \in DOMAIN flagResult.details : flagResult.details[i].text = text

\* C4: when several RED conditions hold at once the reason is that of the
\* first matching condition (sanctions, court, government, credible) and the
\* details list holds one entry for every RED condition that holds.
C4_EveryRedConditionInDetails ==
    (Flagged /\ AnyRedCondition) =>
        /\ flagResult.reason.text = RedReasonText[FirstRedCondition]
        /\ \A k \in 1..4 : RedConditionHolds[k] => HasDetail(RedDetailText[k])

\* C5: the thresholdInfo is consistent with the verdict.
C5_ThresholdInfoConsistent ==
    Flagged =>
        LET info == flagResult.thresholdInfo
            changes == info.whatWouldChange
            unmetLabels == SelectSeq(
                <<"sanctions match", "court conviction", "government ruling",
                  "3+ credible sources">>,
                LAMBDA l : \/ l = "sanctions match" /\ ~SanctionsMatch
                           \/ l = "court conviction" /\ ~HasCourtItem
                           \/ l = "government ruling" /\ ~HasHighGovernmentItem
                           \/ l = "3+ credible sources" /\ ~ThreeCredible)
            gap == 3 - Cardinality(CredibleItems)
        IN /\ info.currentFlag = flagResult.flag
           /\ info.distanceToYellow = Max(0, 2 - IndicatorCount)
           /\ flagResult.flag = "GREEN" =>
                 /\ info.distanceToYellow \in {1, 2}
                 /\ Len(unmetLabels) = 4
                 /\ Len(changes) = 2
                 /\ changes[2].text = "Any of these would immediately trigger RED"
                 /\ changes[2].args = unmetLabels
           /\ flagResult.flag = "YELLOW" =>
                 /\ Len(changes) = 2
                 /\ changes[1].text = "Any of these would escalate to RED"
                 /\ changes[1].args = unmetLabels
                 /\ gap >= 1
                 /\ changes[2].text = "more credible source(s) would trigger RED"
                 /\ changes[2].args = <<gap>>
           /\ flagResult.flag = "RED" =>
                 /\ info.distanceToRed.isNumber /\ info.distanceToRed.value = 0
                 /\ Len(changes) = 1
                 /\ changes[1].text = "Already at highest flag level - no escalation possible"
           /\ flagResult.flag = "GREY" =>
                 /\ Len(changes) = 1
                 /\ changes[1].text = "Re-running with working network connections may resolve"

\* A YELLOW verdict one credible source short of RED
C5_Witness ==
    /\ Flagged
    /\ flagResult.flag = "YELLOW"
    /\ Cardinality(CredibleItems) = 2
    /\ flagResult.thresholdInfo.distanceToYellow = 0
    /\ Len(flagResult.thresholdInfo.whatWouldChange) = 2

(***************************************************************************)
(* Claims about the network graph                                          *)
(***************************************************************************)
GraphBuilt == networkGraph # Null

Edges == networkGraph.edges

Nodes == networkGraph.nodes

EndpointPair(r) == {r.from, r.to}

\* A relationship both of whose ends are nodes of the graph
Eligible(r) == r.from \in NodeIds(Nodes) /\ r.to \in NodeIds(Nodes)

\* The positions, in input order, of the relationships that collapse into edge e
Candidates(e) ==
    {k \in DOMAIN relationships :
        Eligible(relationships[k]) /\ EndpointPair(relationships[k]) = EndpointPair(e)}

\* C6: the graph of buildNetworkGraph has no two edges with the same unordered
\* endpoint pair, so (A,B) and (B,A) are one edge, and both ends of every edge
\* are ids of nodes of the graph.
C6_OneEdgePerUnorderedPair ==
    GraphBuilt =>
        /\ \A i, j \in DOMAIN Edges :
              EndpointPair(Edges[i]) = EndpointPair(Edges[j]) => i = j
        /\ \A i \in DOMAIN Edges : Eligible(Edges[i])
        /\ \A k \in DOMAIN relationships :
              Eligible(relationships[k]) =>
                  \E i \in DOMAIN Edges :
                      EndpointPair(Edges[i]) = EndpointPair(relationships[k])

\* Both directions of one pair were given and became the one edge of the
\* graph, and a relationship to an id that is no node was dropped
C6_Witness ==
    /\ GraphBuilt
    /\ Len(relationships) = 3
    /\ Len(Edges) = 1
    /\ \E j, k \in DOMAIN relationships :
          /\ relationships[j].from = relationships[k].to
          /\ relationships[j].to = relationships[k].from
          /\ relationships[j].from # relationships[j].to
          /\ Eligible(relationships[j])
    /\ \E k \in DOMAIN relationships : ~Eligible(relationships[k])

\* C7: an edge into which several relationship candidates collapse has the
\* maximum of their confidences, their evidence concatenated in input order,
\* and the type co-mention only if every candidate is a co-mention.
C7_MergeKeepsMaxEvidenceAndSpecificType ==
    GraphBuilt =>
        \A i \in DOMAIN Edges :
            LET e == Edges[i]
                cands == Candidates(e)
            IN /\ cands # {}
               /\ \E k \in cands : e.confidence = relationships[k].confidence
               /\ \A k \in cands : e.confidence >= relationships[k].confidence
               \* relationship k carries the evidence item k
               /\ Len(e.evidence) = Cardinality(cands)
               /\ \A m \in DOMAIN e.evidence : e.evidence[m] \in cands
               /\ \A m, n \in DOMAIN e.evidence :
                     m < n => e.evidence[m] < e.evidence[n]
               /\ (e.type = "co-mention") <=>
                     (\A k \in cands : relationships[k].type = "co-mention")

\* Three candidates in both directions collapsed: the first a co-mention, a
\* later one specific, the strongest not the last
C7_Witness ==
    /\ GraphBuilt
    /\ \E i \in DOMAIN Edges :
          LET e == Edges[i]
              cands == Candidates(e)
          IN /\ Cardinality(cands) = 3
             /\ relationships[1].type = "co-mention"
             /\ e.type # "co-mention"
             /\ relationships[3].confidence < e.confidence
             /\ \E j, k \in cands : relationships[j].from # relationships[k].from

CentralityDone == GraphBuilt /\ centrality # <<>>

\* C8: the degrees reported by calculateCentrality add up to twice the number
\* of edges, and the list is in non-increasing order of degree.
C8_DegreeSumAndOrder ==
    CentralityDone =>
        /\ Len(centrality) = Len(Nodes)
        /\ SumSeq([m \in DOMAIN centrality |-> centrality[m].degree]) = 2 * Len(Edges)
        /\ \A m, n \in DOMAIN centrality :
              m < n => centrality[m].degree >= centrality[n].degree

\* Two edges, one of an entity with itself, and nodes of different degree
C8_Witness ==
    /\ CentralityDone
    /\ Len(Edges) = 2
    /\ \E i \in DOMAIN Edges : Edges[i].from = Edges[i].to
    /\ centrality[1].degree > centrality[Len(centrality)].degree
    /\ centrality[Len(centrality)].degree = 0

(***************************************************************************)
(* Claims about hop distance and distance decay                            *)
(***************************************************************************)
HopsDone == pc \in {"hops", "decayed", "redecayed"}

\* The ids at most k edges away from the subject, every edge walked both ways
RECURSIVE Within(_)
Within(k) ==
    IF k = 0 THEN {TargetId}
    ELSE LET near == Within(k - 1)
         IN near \cup {Edges[i].to : i \in {j \in DOMAIN Edges : Edges[j].from \in near}}
                 \cup {Edges[i].from : i \in {j \in DOMAIN Edges : Edges[j].to \in near}}

HasPath(id) == id \in Within(Len(Nodes))

ShortestPath(id) == CHOOSE k \in 0..Len(Nodes) : id \in Within(k) /\ \A m \in 0..(k - 1) : id \notin Within(m)

\* C9: after calculateHopDistances every node's hopDistance is the length of
\* its shortest path from the subject over edges walked both ways, and is the
\* unreachable sentinel exactly for the nodes with no path to the subject.
C9_HopDistanceIsShortestPath ==
    HopsDone =>
        \A i \in DOMAIN Nodes :
            /\ Nodes[i].hasHop
            /\ HasPath(Nodes[i].id) => Nodes[i].hopDistance = ShortestPath(Nodes[i].id)
            /\ ~HasPath(Nodes[i].id) <=> Nodes[i].hopDistance = Unreachable

\* A node three edges away that is reached only against the direction of an
\* edge, beside a node with no path to the subject
C9_Witness ==
    /\ pc = "hops"
    /\ \E i \in DOMAIN Nodes : Nodes[i].hopDistance = Unreachable
    /\ \E i \in DOMAIN Nodes :
          /\ Nodes[i].hopDistance = 3
          /\ \A j \in DOMAIN Edges : Edges[j].to # Nodes[i].id

\* C10: a node with no path to the subject gets the unreachable sentinel and
\* the decay factor 0.05, and every edge touching it gets the adjusted
\* confidence 0.05 times its original confidence.
C10_UnreachableDecaysToFiveHundredths ==
    HopsDone =>
        \A i \in DOMAIN Nodes :
            ~HasPath(Nodes[i].id) =>
                /\ Nodes[i].hopDistance = Unreachable
                /\ Nodes[i].decayFactor = DisconnectedDecay
                /\ pc = "decayed" =>
                      \A j \in DOMAIN Edges :
                          Nodes[i].id \in EndpointPair(Edges[j]) =>
                              /\ Edges[j].decayed
                              /\ Edges[j].adjustedConfidence =
                                    DisconnectedDecay * Edges[j].originalConfidence

\* The decay table as the specification states it, in hundredths: 1.0 for hops
\* 0 and 1, 0.5 for hop 2, 0.25 for hop 3, 0.1 from hop 4 on, 0.05 for no path
StatedDecay(h) ==
    CASE h = Unreachable -> 5
      [] h \in {0, 1} -> 100
      [] h = 2 -> 50
      [] h = 3 -> 25
      [] OTHER -> 10

\* The hop distance of node id in the current graph
HopOf(id) == Nodes[CHOOSE i \in DOMAIN Nodes : Nodes[i].id = id].hopDistance

\* The more distant of two hop distances, no path being the most distant
MoreDistant(h1, h2) ==
    IF h1 = Unreachable \/ h2 = Unreachable THEN Unreachable
    ELSE IF h1 >= h2 THEN h1 ELSE h2

DecayStep == pc \in {"hops", "decayed"} /\ pc' \in {"decayed", "redecayed"} /\ pc' # pc

\* C11: applyDistanceDecay after calculateHopDistances gives every edge the
\* adjusted confidence of its confidence times the decay of its more distant
\* endpoint, leaves the confidence field as it was and equal to
\* originalConfidence, and a second application changes no edge field.
C11_DecayByMoreDistantEndpoint ==
    [][DecayStep =>
        /\ Len(networkGraph'.edges) = Len(Edges)
        /\ \A j \in DOMAIN Edges :
              LET before == Edges[j]
                  after == networkGraph'.edges[j]
              IN /\ after.confidence = before.confidence
                 /\ after.originalConfidence = after.confidence
                 /\ after.adjustedConfidence =
                       before.confidence
                         * StatedDecay(MoreDistant(HopOf(before.from), HopOf(before.to)))
        /\ pc = "decayed" => networkGraph'.edges = Edges]_vars

\* The decay was applied twice to a graph with an edge between a node one hop
\* and a node two hops away, an edge reaching a node four hops away, and so
\* edges of different decay
C11_Witness ==
    /\ pc = "redecayed"
    /\ \E j \in DOMAIN Edges :
          /\ {HopOf(Edges[j].from), HopOf(Edges[j].to)} = {1, 2}
          /\ Edges[j].adjustedConfidence = 50 * Edges[j].confidence
    /\ \E j \in DOMAIN Edges : Edges[j].maxHopDistance = 4

\* The largest hop distance at which getDecayFactor is compared
MaxHops == 8

\* C12: getDecayFactor never grows with the hop distance: it is 1.0 for hops 0
\* and 1, 0.5 for hop 2, 0.25 for hop 3 and 0.1 from hop 4 on, both as a
\* function and as written on the nodes of the graph.
C12_DecayNonIncreasing ==
    /\ \A h \in 0..MaxHops : getDecayFactor(h) = StatedDecay(h)
    /\ \A h1, h2 \in 0..MaxHops : h1 < h2 => getDecayFactor(h1) >= getDecayFactor(h2)
    /\ HopsDone =>
          /\ \A i \in DOMAIN Nodes :
                Nodes[i].hopDistance >= 0 =>
                    Nodes[i].decayFactor = StatedDecay(Nodes[i].hopDistance)
          /\ \A i, j \in DOMAIN Nodes :
                (0 <= Nodes[i].hopDistance /\ Nodes[i].hopDistance < Nodes[j].hopDistance)
                    => Nodes[i].decayFactor >= Nodes[j].decayFactor

\* A chain of four entities: nodes at every hop distance from 0 to 4, the
\* last with the factor 0.1
C12_Witness ==
    /\ pc = "hops"
    /\ {Nodes[i].hopDistance : i \in DOMAIN Nodes} = 0..4
    /\ \E i \in DOMAIN Nodes : Nodes[i].hopDistance = 4 /\ Nodes[i].decayFactor = 10

(***************************************************************************)
(* Claims about name similarity                                            *)
(***************************************************************************)
\* Two fractions of the same value
SameFraction(x, y) == x.num * y.den = y.num * x.den

\* The number of positions at which two strings of one length differ, which
\* is no less than their edit distance
Mismatches(a, b) == Cardinality({i \in DOMAIN a : a[i] # b[i]})

\* C13: similarity(a,b) = similarity(b,a) and similarity(a,a) = 1, the empty
\* string included, where similarity is 1 minus the Levenshtein distance over
\* the longer length; levenshtein(a,b) = levenshtein(b,a) and is 0 exactly
\* when a = b.
C13_SimilaritySymmetric ==
    /\ [](pc \in {"compared", "swapped"} =>
            /\ (compared.distance = 0) <=> (nameA = nameB)
            /\ nameA = nameB => SameFraction(compared.score, [num |-> 1, den |-> 1])
            /\ compared.distance <= Max(Len(nameA), Len(nameB))
            /\ Len(nameA) = Len(nameB) => compared.distance <= Mismatches(nameA, nameB)
            /\ compared.score.den * (Max(Len(nameA), Len(nameB)) - compared.distance)
                  = compared.score.num * Max(Len(nameA), Len(nameB)))
    /\ [][pc' = "swapped" =>
            /\ compared'.distance = compared.distance
            /\ SameFraction(compared'.score, compared.score)]_vars

\* Two different strings of different length, one of them empty, compared in
\* both orders
C13_Witness ==
    /\ pc = "swapped"
    /\ nameA = <<>>
    /\ Len(nameB) = 2
    /\ compared.score.num = 0

(***************************************************************************)
(* Claims about entity deduplication                                       *)
(***************************************************************************)
\* What an entity is apart from its id
Described(e) ==
    [name |-> e.name, type |-> e.type, extractedBy |-> e.extractedBy,
     extractionMethods |-> e.extractionMethods, aliases |-> e.aliases]

\* C14: resolving the same raw mentions a second time yields the same entities
\* in the same order (names, types, extraction methods, aliases), the ids
\* apart, and resolving the resolved entities merges nothing further.
C14_DedupIdempotent ==
    [][/\ (pc = "resolved" /\ pc' = "resolved again") =>
              /\ Len(entities') = Len(entities)
              /\ \A i \in DOMAIN entities : Described(entities'[i]) = Described(entities[i])
       /\ (pc = "resolved" /\ pc' = "resolved from entities") =>
              /\ Len(entities') = Len(entities)
              /\ \A i \in DOMAIN entities :
                    /\ entities'[i].name = entities[i].name
                    /\ entities'[i].type = entities[i].type
                    /\ entities'[i].extractionMethods = <<entities[i].extractedBy>>
                    /\ entities'[i].aliases = <<>>]_vars

\* Two entities were resolved from three mentions, one of them holding a near
\* spelling as an alias, and these two entities were resolved again
C14_Witness ==
    /\ pc = "resolved from entities"
    /\ Len(entities) = 2
    /\ Len(rawEntities) = 2
    /\ \E i \in DOMAIN rawEntities : rawEntities[i].aliases # <<>>
    /\ entityCounter = 4

Crossed == crossRefResult # Null /\ ~HasRaised(crossRefResult)

CrossRels == crossRefResult.relationships

\* name stands in text at offset p (from 0), letter case apart
OccursAt(text, name, p) ==
    /\ p + Len(name) <= Len(text)
    /\ \A k \in 1..Len(name) : lowerChar(text[p + k]) = lowerChar(name[k])

Offsets(text, name) == {p \in 0..(Len(text) - 1) : OccursAt(text, name, p)}

\* The co-mentions of two names in one text: pairs of offsets, one of each
\* name, that differ by at most the window
CoMentionsIn(text, nameOfA, nameOfB) ==
    Cardinality({h \in Offsets(text, nameOfA) \X Offsets(text, nameOfB) :
                    /\ h[1] # h[2]
                    /\ h[1] - h[2] <= coMentionWindowChars
                    /\ h[2] - h[1] <= coMentionWindowChars})

\* The co-mention count of entities i and j summed over all text sources
CoMentionCount(i, j) ==
    SumSeq([k \in DOMAIN textSources |->
                CoMentionsIn(textSources[k].text, entities[i].name, entities[j].name)])

\* The positions of the co-mention relationships of entities i and j
CoMentionRels(i, j) ==
    {r \in DOMAIN CrossRels :
        /\ CrossRels[r].detectedVia = "co-mention"
        /\ {CrossRels[r].from, CrossRels[r].to} = {entities[i].id, entities[j].id}}

StatedCoMentionConfidence(count, type) ==
    30 + (IF count >= 5 THEN 30 ELSE IF count >= 3 THEN 20 ELSE IF count >= 2 THEN 10 ELSE 0)
       + (IF type # "co-mention" THEN 20 ELSE 0)

\* C16: crossReference emits a co-mention relationship for a pair of entities
\* only when their co-mention count over all sources is at least 2, at most
\* one per pair, with confidence 0.3 plus 0.1 / 0.2 / 0.3 for count >= 2 / 3 / 5
\* plus 0.2 for a type more specific than co-mention.
C16_CoMentionThresholdAndConfidence ==
    Crossed =>
        \A i, j \in DOMAIN entities :
            i < j =>
                /\ Cardinality(CoMentionRels(i, j)) =
                      (IF CoMentionCount(i, j) >= minCoMentions THEN 1 ELSE 0)
                /\ \A r \in CoMentionRels(i, j) :
                      CrossRels[r].confidence =
                          StatedCoMentionConfidence(CoMentionCount(i, j), CrossRels[r].type)

\* A pair co-mentioned three times with no keyword between them got the type
\* co-mention and confidence 0.5, and another pair a specific type
C16_Witness ==
    /\ Crossed
    /\ \E i, j \in DOMAIN entities :
          /\ i < j
          /\ CoMentionCount(i, j) = 3
          /\ \E r \in CoMentionRels(i, j) :
                CrossRels[r].type = "co-mention" /\ CrossRels[r].confidence = 50
    /\ \E r \in DOMAIN CrossRels :
          CrossRels[r].detectedVia = "co-mention" /\ CrossRels[r].type = "organizational"

\* The positions of the organizational relationships of entity i to the subject
OrganizationalLinks(i) ==
    {r \in DOMAIN CrossRels :
        /\ CrossRels[r].from = entities[i].id
        /\ CrossRels[r].to = TargetId
        /\ CrossRels[r].type = "organizational"}

\* The positions of the edges of the graph between entity i and the subject
EdgesToSubject(i) ==
    {e \in DOMAIN Edges : {Edges[e].from, Edges[e].to} = {entities[i].id, TargetId}}

\* C17: crossReference emits exactly one organizational relationship to the
\* subject for each person with at least one role, labelled with the first
\* role and with the entity's own confidence, and none for an entity without
\* roles; the graph built from it has exactly one organizational edge from
\* such a person to the subject, labelled with the first role.
C17_RoleLinkage ==
    /\ Crossed =>
          \A i \in DOMAIN entities :
              /\ (entities[i].type = "person" /\ entities[i].roles # <<>>) =>
                    /\ Cardinality(OrganizationalLinks(i)) = 1
                    /\ \A r \in OrganizationalLinks(i) :
                          /\ CrossRels[r].label = entities[i].roles[1]
                          /\ CrossRels[r].confidence = entities[i].confidence
              /\ entities[i].roles = <<>> =>
                    /\ OrganizationalLinks(i) = {}
                    /\ \A r \in DOMAIN CrossRels :
                          CrossRels[r].detectedVia = "entity-extraction" =>
                              CrossRels[r].from # entities[i].id
    /\ (Crossed /\ pc = "built") =>
          \A i \in DOMAIN entities :
              (entities[i].type = "person" /\ entities[i].roles # <<>>) =>
                  /\ Cardinality(EdgesToSubject(i)) = 1
                  /\ \A e \in EdgesToSubject(i) :
                        /\ Edges[e].from = entities[i].id
                        /\ Edges[e].to = TargetId
                        /\ Edges[e].type = "organizational"
                        /\ Edges[e].label = entities[i].roles[1]

\* The graph of a single person with the roles CEO and founder, who is also a
\* sanctions match: one edge, organizational, labelled CEO
C17_Witness ==
    /\ Crossed
    /\ pc = "built"
    /\ Len(entities) = 1
    /\ entities[1].roles = <<"CEO", "founder">>
    /\ Len(CrossRels) = 2
    /\ Len(Edges) = 1
    /\ Edges[1].label = "CEO"

\* An entity's name holds a sanctions-matched name or is held by one
NamesOverlap(entity, ev) ==
    /\ Has(ev, "matchedName")
    /\ ev.matchedName # <<>>
    /\ \/ \E p \in 0..Len(entity.name) : OccursAt(entity.name, ev.matchedName, p)
       \/ \E p \in 0..Len(ev.matchedName) : OccursAt(ev.matchedName, entity.name, p)

\* C18: crossReference links an entity to the subject, type sanctions-link and
\* confidence 0.9, once for every evidence item whose sanctions-matched name
\* the entity's name holds or is held by, letter case apart: the same pairs
\* for which detectAnomalies reports a cross-list presence.
C18_SanctionsLinkBothWays ==
    Crossed =>
        \A i \in DOMAIN entities :
            LET links == {r \in DOMAIN CrossRels :
                            /\ CrossRels[r].type = "sanctions-link"
                            /\ CrossRels[r].from = entities[i].id
                            /\ CrossRels[r].to = TargetId}
                overlaps == {k \in DOMAIN evidence : NamesOverlap(entities[i], evidence[k])}
                presences == {a \in DOMAIN crossRefResult.anomalies :
                                /\ crossRefResult.anomalies[a].type = "cross-list-presence"
                                /\ crossRefResult.anomalies[a].entityId = entities[i].id}
            IN /\ Cardinality(links) = Cardinality(overlaps)
               /\ Cardinality(links) = Cardinality(presences)
               /\ \A r \in links : CrossRels[r].confidence = 90

(***************************************************************************)
(* Claims about the suggestions generator and about missing fields         *)
(***************************************************************************)
StatedRank(priority) ==
    CASE priority = "high" -> 1
      [] priority = "medium" -> 2
      [] priority = "low" -> 3

\* C19: the suggestions returned by generateSuggestions are sorted by
\* priority: every high suggestion precedes every medium one, and every
\* medium one precedes every low one.
C19_SortedHighMediumLow ==
    suggestions # Null =>
        \A i, j \in DOMAIN suggestions.suggestions :
            i < j =>
                StatedRank(suggestions.suggestions[i].priority)
                    <= StatedRank(suggestions.suggestions[j].priority)

\* C20: no core operation raises when a record lacks an optional field;
\* crossReference on an entity without a roles field returns a result, and
\* the result is the one it returns for the same entity with an empty role
\* list.
C20_MissingFieldNeverRaises ==
    crossRefResult # Null =>
        /\ ~HasRaised(crossRefResult)
        /\ crossRefResult =
              crossReference([i \in DOMAIN entities |->
                                 IF Has(entities[i], "roles") THEN entities[i]
                                 ELSE [f \in DOMAIN entities[i] \cup {"roles"} |->
                                          IF f = "roles" THEN <<>> ELSE entities[i][f]]],
                             evidence, "Acme Corp", textSources)

(***************************************************************************)
(* Claims about the hypothesis generator                                   *)
(***************************************************************************)
Hypothesised == pc = "hypothesised"

\* The positions of the hypotheses of a type that relate to entity i
HypothesesOf(type, i) ==
    {h \in DOMAIN hypotheses :
        /\ hypotheses[h].type = type
        /\ entities[i].id \in Range(hypotheses[h].relatedEntities)}

\* C22: generateHypotheses produces exactly one organizational-link
\* hypothesis for each entity that holds at least one role, and none for an
\* entity without roles, each with the confidence score
\* min(0.5 + 0.3 x entity confidence, 0.9).
C22_OneOrganizationalLinkPerRoleHolder ==
    Hypothesised =>
        \A i \in DOMAIN entities :
            /\ Cardinality(HypothesesOf("organizational-link", i)) =
                  (IF entities[i].roles # <<>> THEN 1 ELSE 0)
            /\ \A h \in HypothesesOf("organizational-link", i) :
                  hypotheses[h].confidenceScore =
                      Min(5000 + 30 * entities[i].confidence, 9000)

\* C24: for every entity for which crossReference emits a sanctions-link
\* relationship to the subject, the built graph has an edge of type
\* sanctions-link between the entity and the subject, and generateHypotheses
\* emits a sanctions-proximity hypothesis relating to the entity, also when
\* the entity is a person with a role.
C24_SanctionsLinkReachesGraphAndHypotheses ==
    Hypothesised =>
        \A i \in DOMAIN entities :
            (\E r \in DOMAIN CrossRels :
                /\ CrossRels[r].type = "sanctions-link"
                /\ CrossRels[r].from = entities[i].id)
            => /\ \E e \in EdgesToSubject(i) : Edges[e].type = "sanctions-link"
               /\ HypothesesOf("sanctions-proximity", i) # {}

(***************************************************************************)
(* Claims about edited graphs and about hop distances along edges          *)
(***************************************************************************)
\* C23: in every graph reachable from a buildNetworkGraph result by addNode
\* and addEdge there is at most one edge per unordered pair of endpoints, and
\* every endpoint of an edge is the id of a node.
C23_EditedGraphKeepsOneEdgePerPair ==
    GraphBuilt =>
        /\ \A i, j \in DOMAIN Edges :
              {Edges[i].from, Edges[i].to} = {Edges[j].from, Edges[j].to} => i = j
        /\ \A i \in DOMAIN Edges :
              {Edges[i].from, Edges[i].to} \subseteq NodeIds(Nodes)

RECURSIVE SumOver(_, _)
SumOver(f, keys) ==
    IF keys = {} THEN 0
    ELSE LET k == CHOOSE x \in keys : TRUE
         IN f[k] + SumOver(f, keys \ {k})

BothUnreachable(e) ==
    HopOf(Edges[e].from) = Unreachable /\ HopOf(Edges[e].to) = Unreachable

\* Both endpoints are reachable and their hop distances differ by gap
ReachableWithGap(e, gap) ==
    /\ HopOf(Edges[e].from) >= 0
    /\ HopOf(Edges[e].to) >= 0
    /\ HopOf(Edges[e].from) - HopOf(Edges[e].to) \in {gap, 0 - gap}

\* C27: after calculateHopDistances the endpoints of every edge are both
\* reachable with hop distances that differ by at most 1, or both
\* unreachable, and the hopDistribution counts sum to the number of nodes.
C27_EdgeEndpointsOneHopApart ==
    HopsDone =>
        /\ \A e \in DOMAIN Edges :
              BothUnreachable(e) \/ ReachableWithGap(e, 0) \/ ReachableWithGap(e, 1)
        /\ LET hopDistribution == networkGraph.graphMetadata.hopDistribution
           IN SumOver(hopDistribution, DOMAIN hopDistribution) = Len(Nodes)

\* An edge between two unreachable nodes, an edge between two nodes one hop
\* from the subject, and an edge from the subject
C27_Witness ==
    /\ pc = "hops"
    /\ \E e \in DOMAIN Edges : BothUnreachable(e)
    /\ \E e \in DOMAIN Edges : ReachableWithGap(e, 0) /\ HopOf(Edges[e].from) = 1
    /\ \E e \in DOMAIN Edges : ReachableWithGap(e, 1)

(***************************************************************************)
(* Claims about the verdict when evidence is added                         *)
(***************************************************************************)
Reassessed == pc = "reassessed"

\* C25: one more evidence item, with the sanctions result, the hypotheses and
\* the warnings unchanged, never lowers the verdict: RED stays RED and YELLOW
\* stays YELLOW or becomes RED.
C25_MoreEvidenceNeverLowersVerdict ==
    Reassessed =>
        /\ earlierFlag = "RED" => flagResult.flag = "RED"
        /\ earlierFlag = "YELLOW" => flagResult.flag \in {"YELLOW", "RED"}

\* A YELLOW verdict that the added item turns RED by making it the third
\* credible source
C25_Witness ==
    /\ Reassessed
    /\ earlierFlag = "YELLOW"
    /\ flagResult.flag = "RED"
    /\ ~ sanctionsResult.sanctioned
    /\ \A i \in DOMAIN evidence : evidence[i].sourceType = "ngo"

\* A RED verdict by three credible sources that stays RED with a fourth item
C25_WitnessRed ==
    /\ Reassessed
    /\ earlierFlag = "RED"
    /\ flagResult.flag = "RED"
    /\ Len(evidence) = MaxEvidence + 1

(***************************************************************************)
(* Claims about the id counters and about merged entity lists              *)
(***************************************************************************)
Returned(r) == r \in DOMAIN runs /\ runs[r].at = "done"

IdsOf(list) == [k \in DOMAIN list |-> list[k].id]

\* No id occurs twice in the list
PairwiseDistinct(list) ==
    \A i, j \in DOMAIN list : list[i].id = list[j].id => i = j

\* The raw mentions of the texts of a run
MentionsOf(texts) == Flatten([t \in DOMAIN texts |-> texts[t].mentions])

\* C21: the counters are reset at the start of every assessment: the same
\* call made again in sequence yields the same entity, hypothesis and
\* suggestion ids, numbered from 1, and within one run the ids of each kind
\* are pairwise distinct.
C21_IdsRestartEveryRun ==
    \A r \in DOMAIN runs :
        Returned(r) =>
            /\ IdsOf(runs[r].entities) = IdsOf(runs[1].entities)
            /\ IdsOf(runs[r].hypotheses) = IdsOf(runs[1].hypotheses)
            /\ IdsOf(runs[r].suggestions) = IdsOf(runs[1].suggestions)
            /\ PairwiseDistinct(runs[r].entities)
            /\ PairwiseDistinct(runs[r].hypotheses)
            /\ PairwiseDistinct(runs[r].suggestions)
            /\ \A k \in DOMAIN runs[r].entities :
                  runs[r].entities[k].id.counter
                      \in 1..Len(MentionsOf(runs[r].input.textObjects))
            /\ Range(IdsOf(runs[r].hypotheses)) = 1..Len(runs[r].hypotheses)
            /\ Range(IdsOf(runs[r].suggestions)) = 1..Len(runs[r].suggestions)

\* The same call was made twice and each time gave several entities,
\* hypotheses and suggestions
C21_Witness ==
    /\ Len(runs) = 2
    /\ Returned(1)
    /\ Returned(2)
    /\ Len(runs[2].entities) >= 2
    /\ Len(runs[2].hypotheses) >= 2
    /\ Len(runs[2].suggestions) >= 2

Matching(a, b) == matchOf(normalizeName(a.name), b) # "none"

\* No two entities of the list match by normalised name or by similarity
NoTwoMatch(list) ==
    \A i, j \in DOMAIN list : i # j => ~Matching(list[i], list[j])

\* The first entity of the list that the mention or entity matches
FirstMatch(list, entity) ==
    CHOOSE k \in DOMAIN list :
        /\ Matching(entity, list[k])
        /\ \A m \in DOMAIN list : Matching(entity, list[m]) => k <= m

\* The near spellings that the entities of the list hold as aliases
AliasesHeld(list) == Flatten([k \in DOMAIN list |-> list[k].aliases])

\* Every mention is matched by an entity of the list; the mentions that match
\* their first entity by similarity only are its aliases, and no entity holds
\* another alias
MergedIntoFirstSeen(list, mentions) ==
    /\ \A m \in DOMAIN mentions : \E k \in DOMAIN list : Matching(mentions[m], list[k])
    /\ \A m \in DOMAIN mentions :
          LET first == list[FirstMatch(list, mentions[m])]
          IN /\ mentions[m].extractedBy \in Range(first.extractionMethods)
             /\ normalizeName(mentions[m].name) # normalizeName(first.name)
                   => mentions[m].name \in Range(first.aliases)
    /\ Len(AliasesHeld(list)) =
          Cardinality({m \in DOMAIN mentions :
                          normalizeName(mentions[m].name)
                              # normalizeName(list[FirstMatch(list, mentions[m])].name)})

\* The entities of all texts of a run, before they are merged across sources
AllEntities(texts) == collectEntities(<<>>, texts, 0).entities

\* Every entity of the texts went into the first merged entity it matches:
\* the mention counts of a merged entity are those of the entities whose first
\* match it is
CountsMergedIntoFirstSeen(merged, allEntities) ==
    \A k \in DOMAIN merged :
        merged[k].mentionCount =
            SumSeq([i \in DOMAIN allEntities |->
                       IF FirstMatch(merged, allEntities[i]) = k
                       THEN allEntities[i].mentionCount ELSE 0])

\* The merged list of a run before the subject is removed from it
MergedOf(texts) == mergeAcrossSources(<<>>, AllEntities(texts))

\* What deduplicateEntities made of the mentions of one text
DeduplicatedWell(unique, mentions) ==
    /\ NoTwoMatch(unique)
    /\ MergedIntoFirstSeen(unique, mentions)

\* What extractFromMultipleTexts made of the entities of all its texts; the
\* list it returns is the merged list without the subject
MergedWell(returned, merged, allEntities) ==
    /\ NoTwoMatch(merged)
    /\ CountsMergedIntoFirstSeen(merged, allEntities)
    /\ Range(returned) \subseteq Range(merged)

\* C26: in the output of deduplicateEntities and in the cross-source merged
\* list of extractFromMultipleTexts no two distinct entities have equal
\* normalised names or a similarity of 0.85 or more, whatever the input and
\* its order, and a later near-duplicate is merged into the first-seen entity
\* it matches.
C26_NoTwoEntitiesMatch ==
    Returned(Len(runs)) =>
        /\ MergedWell(runs[Len(runs)].entities,
                      MergedOf(runs[Len(runs)].input.textObjects),
                      AllEntities(runs[Len(runs)].input.textObjects))
        /\ \A t \in DOMAIN runs[Len(runs)].input.textObjects :
              DeduplicatedWell(
                  deduplicateEntities(runs[Len(runs)].input.textObjects[t].mentions, 0).unique,
                  runs[Len(runs)].input.textObjects[t].mentions)

\* A text with two spellings that are not near each other and a third that
\* is near both, and a second text whose entity is near two entities of the
\* first text: each went into the first
C26_Witness ==
    /\ Returned(1)
    /\ runs[1].input.textObjects = <<TextObjectPdf, TextObjectNgo>>
    /\ Len(runs[1].entities) = 2
    /\ runs[1].entities[1].aliases = <<MOHAMMED_ALI>>
    /\ runs[1].entities[1].roles = <<"founder", "director">>
    /\ runs[1].entities[2].aliases = <<>>

\* What the run yields when no other run is served
Alone(input) == synchronousSteps(input, 0, 0, 0)

SameIds(run, alone) ==
    /\ IdsOf(run.entities) = IdsOf(alone.entities)
    /\ IdsOf(run.hypotheses) = IdsOf(alone.hypotheses)
    /\ IdsOf(run.suggestions) = IdsOf(alone.suggestions)

\* C30: when two runAssessment calls interleave at their awaits, the entity,
\* hypothesis and suggestion ids of each assessment are those of the
\* assessment run alone.
C30_InterleavedRunsKeepTheirIds ==
    \A r \in DOMAIN runs : Returned(r) => SameIds(runs[r], Alone(runs[r].input))

\* Two calls with different inputs have returned, and the call started first
\* returned last: the counters are as its synchronous section left them
C30_Witness ==
    /\ Len(runs) = 2
    /\ Returned(1)
    /\ Returned(2)
    /\ Len(runs[1].hypotheses) # Len(runs[2].hypotheses)
    /\ Len(runs[1].suggestions) # Len(runs[2].suggestions)
    /\ hypothesisCounter = Len(runs[1].hypotheses)
    /\ suggestionCounter = Len(runs[1].suggestions)
    /\ Len(runs[2].entities) >= 1
    /\ Len(runs[2].hypotheses) >= 1

(***************************************************************************)
(* Claims about the background service worker of the extension            *)
(***************************************************************************)
\* C28: under every interleaving of the messages, the timer ticks and the
\* fetch completions, whenever the stored status is completed the stored
\* assessment is non-null, currentStep is null, and the assessment is the
\* result of the request for the stored orgName.
C28_CompletedStateIsOfStoredOrg ==
    getState(kopplaState).status = "completed" =>
        /\ kopplaState.assessment # Null
        /\ kopplaState.currentStep = NoStep
        /\ kopplaState.assessment = AssessmentOf(kopplaState.orgName)

\* C29: once a CLEAR_STATE message has been handled the stored state is the
\* idle default and stays so until the next START_ASSESSMENT message, also
\* when an assessment was running and its timer or fetch completes later.
C29_ClearedStaysIdle ==
    cleared => getState(kopplaState) = DEFAULT_STATE

====
